---- MODULE Spec2Model ----
(***************************************************************************)
(* A model of the pyboosted/tui terminal runtime: the cell codec, the ANSI *)
(* emitter and the double-buffered diff renderer (src/src/cell.ts,         *)
(* src/src/diff.ts), the input decoder state machine (decoder.ts), the     *)
(* stdin reader (src/src/input/reader.ts) and the capability controller's  *)
(* reset path (src/src/input/enable.ts, terminal.ts).                      *)
(***************************************************************************)
EXTENDS Integers, Sequences, FiniteSets, TLC

VARIABLES
    \* ---- DiffEngine (src/src/diff.ts) and the physical terminal -------
    rows, cols,      \* DiffEngine.rows / cols
    prev, curr,      \* front / back buffer: flat arrays of packed cells
    dirty,           \* per-row dirty flags (Uint8Array)
    output,          \* what the last computeDiff() returned (token list)
    screen,          \* what the physical terminal displays, cell by cell
    termSgr,         \* the physical terminal's current SGR state
    streak,          \* computeDiff() calls since the last other operation
    call,            \* the last call made on the engine or the codec by
                     \* name, with its arguments and what it returned
    \* ---- InputDecoder (decoder.ts) and its caller ----------------------
    dec,             \* the decoder object: every private field
    input,           \* the bytes the terminal sends, in order
    split,           \* input = a first part of this length, then a second
    fed,             \* how many bytes of input have been passed to feed()
    produced,        \* every event the decoder has queued so far, in order
    threw,           \* the last feed() call ended by an exception
    reports,         \* the whole sequences fed one per call, in order
    \* ---- the stdin reader (src/src/input/reader.ts) --------------------
    stdinQueue,      \* chunks the stream holds, not yet handed to a read()
    readRequests,    \* pending reader.read() promises, oldest first:
                     \* "live" is awaited, "abandoned" lost its race
    caller,          \* where the application is: "idle" or inside a call
    sentBytes,       \* every byte the terminal has sent, in order
    fedBytes,        \* every byte the reader has fed to the decoder
    delivered,       \* the events readEvent/tryReadEvent have returned
    result,          \* what the last completed call returned
    \* ---- terminal modes and exit (src/src/input/enable.ts, terminal.ts) -
    termState,       \* enable.ts's module-level terminalState
    isRawMode,       \* Terminal.isRawMode
    listeners,       \* process's SIGINT and SIGTERM listeners, in order
    outBuffer,       \* OutputBuffer.buffer: written, not yet flushed
    proc,            \* "running", "exited" (process.exit) or "killed"
    task,            \* the async call waiting for its stty child to exit
    atSignal,        \* what held when the last signal arrived
    opLog,           \* what the operation under way has sent to the terminal
    kittyStack,      \* the terminal's Kitty keyboard stack: entries pushed
                     \* and not popped since the program started
    resetEnded,      \* how the resetTerminal() that just ended did so
    \* ---- initializeInput and the handlers' resets (enable.ts) ----------
    init,            \* the initializeInput call: its config, how far it is,
                     \* the errors it collected and the status it returned
    waiting,         \* the owners of the resetTerminal calls started while
                     \* another call awaited its stty child, oldest first
    \* ---- EventStreamImpl (src/src/input/stream.ts) and its host --------
    stdinEnded,      \* the byte source has reported end of input
    queue,           \* EventStreamImpl.queue: events no one waited for
    resolvers,       \* EventStreamImpl.resolvers: who waits for an event
    closed,          \* EventStreamImpl.closed
    readTask,        \* where startReading() is
    host             \* where the host's `for await` over the stream is

diffVars ==
    <<rows, cols, prev, curr, dirty, output, screen, termSgr, streak, call>>

decVars == <<dec, input, split, fed, produced, threw, reports>>

readerVars == <<stdinQueue, readRequests, caller, sentBytes, fedBytes,
                delivered, result>>

ctlVars == <<termState, isRawMode, listeners, outBuffer, proc, task, atSignal,
             opLog, kittyStack, resetEnded>>

inputVars == <<init, waiting>>

streamVars == <<stdinEnded, queue, resolvers, closed, readTask, host>>

vars == <<diffVars, decVars, readerVars, ctlVars, inputVars, streamVars>>

\* What the operations of one component leave alone.
notDiff == <<decVars, readerVars, ctlVars, inputVars, streamVars>>
notDec == <<diffVars, readerVars, ctlVars, inputVars, streamVars>>
notReader == <<diffVars, input, split, fed, produced, threw, reports, ctlVars,
               inputVars, streamVars>>
notCtl == <<diffVars, decVars, readerVars, inputVars, streamVars>>

----------------------------------------------------------------------------
(* Bit arithmetic on non-negative integers.  Where the code masks with     *)
(* 2^k - 1 or shifts right by k the model writes % 2^k and \div 2^k.        *)

RECURSIVE BitAnd(_, _)
BitAnd(a, b) ==
    IF a = 0 \/ b = 0 THEN 0
    ELSE ((a % 2) * (b % 2)) + 2 * BitAnd(a \div 2, b \div 2)

RECURSIVE BitOr(_, _)
BitOr(a, b) ==
    IF a = 0 THEN b
    ELSE IF b = 0 THEN a
    ELSE (IF (a % 2) + (b % 2) > 0 THEN 1 ELSE 0)
         + 2 * BitOr(a \div 2, b \div 2)

----------------------------------------------------------------------------
(* Cell codec (src/src/cell.ts).  A Color is a record: kind "none" is      *)
(* undefined, "pal" a palette number v, "rgb" the hex string #RRGGBB with  *)
(* v its 24-bit value.                                                     *)

NoColor == [kind |-> "none", v |-> 0]
Pal(n)  == [kind |-> "pal", v |-> n]
Rgb(n)  == [kind |-> "rgb", v |-> n]

\* JavaScript truthiness of a Color | undefined: undefined and the number 0
\* are falsy, every '#rrggbb' string is truthy.
Truthy(color) ==
    /\ color.kind # "none"
    /\ ~(color.kind = "pal" /\ color.v = 0)

COLOR_NONE == 0
COLOR_PALETTE_START == 1
COLOR_RGB_START == 257
CHAR_MASK == 2097151

packRgbColor(r, g, b) ==
    LET r5 == (r \div 8) % 32
        g6 == (g \div 4) % 64
        b5 == (b \div 8) % 32
    IN  COLOR_RGB_START + r5 * 2048 + g6 * 32 + b5

unpackRgbColor(packed) ==
    LET rgb == packed - COLOR_RGB_START
        r5 == (rgb \div 2048) % 32
        g6 == (rgb \div 32) % 64
        b5 == rgb % 32
    \* (r5 << 3) | (r5 >> 2): the two fields share no bit
    IN  << r5 * 8 + r5 \div 4, g6 * 4 + g6 \div 16, b5 * 8 + b5 \div 4 >>

encodeColor(color) ==
    IF ~Truthy(color) THEN COLOR_NONE
    ELSE IF color.kind = "pal" THEN COLOR_PALETTE_START + (color.v % 256)
    ELSE packRgbColor((color.v \div 65536) % 256, (color.v \div 256) % 256,
                      color.v % 256)

decodeColor(encoded) ==
    IF encoded = COLOR_NONE THEN NoColor
    ELSE IF encoded <= COLOR_PALETTE_START + 255
         THEN Pal(encoded - COLOR_PALETTE_START)
    ELSE LET c == unpackRgbColor(encoded)
         IN  Rgb(c[1] * 65536 + c[2] * 256 + c[3])

\* char.codePointAt(0) || 0x20, with -1 standing for the empty string.
CodePointOf(ch) == IF ch <= 0 THEN 32 ELSE ch

\* A Cell is the pair of 32-bit words [cell1, cell2]; a word is written as
\* its two 16-bit halves <<high, low>>.
Word(hi, lo) == <<hi % 65536, lo % 65536>>

packCell(ch, attr, fgColor, bgColor) ==
    LET cp == CodePointOf(ch) % (CHAR_MASK + 1)
        \* ((attr & 0xff) << ATTR_SHIFT) | (codePoint & CHAR_MASK)
        cell1 == Word((attr % 256) * 256 + cp \div 65536, cp)
        fg == encodeColor(fgColor)
        bg == encodeColor(bgColor)
        \* (fg << 16) | bg, in 32 bits
        cell2 == Word(BitOr(fg, bg \div 65536), bg)
    IN  <<cell1, cell2>>

emptyCell == <<Word(0, 32), Word(0, 0)>>

unpackChar(cell) == ((cell[1][1] % 32) * 65536 + cell[1][2]) % (CHAR_MASK + 1)
unpackAttr(cell) == (cell[1][1] \div 256) % 256
unpackFgColor(cell) == decodeColor(cell[2][1] % 65536)
unpackBgColor(cell) == decodeColor(cell[2][2] % 65536)
cellEquals(a, b) == a[1] = b[1] /\ a[2] = b[2]

----------------------------------------------------------------------------
(* ANSI emitter (ansi.ts, in src/src/diff.ts from line 503).  An escape    *)
(* string is a token: <<"sgr", codes>> is ESC [ c1 ; c2 ; ... m,           *)
(* <<"move", r, c>> is ESC [ r ; c H, <<"ch", cp>> is one character.       *)

ATTR_BOLD == 1
ATTR_DIM == 2
ATTR_ITALIC == 4
ATTR_UNDERLINE == 8
ATTR_REVERSE == 16
ATTR_STRIKETHROUGH == 32

\* (n & bit) !== 0, for a single-bit mask.
HasBit(n, bit) == (n \div bit) % 2 = 1

\* The parts of ATTR_LUT[i]: "0" first, then one code per attribute bit.
ATTR_LUT(i) ==
    <<0>> \o (IF HasBit(i, ATTR_BOLD) THEN <<1>> ELSE <<>>)
          \o (IF HasBit(i, ATTR_DIM) THEN <<2>> ELSE <<>>)
          \o (IF HasBit(i, ATTR_ITALIC) THEN <<3>> ELSE <<>>)
          \o (IF HasBit(i, ATTR_UNDERLINE) THEN <<4>> ELSE <<>>)
          \o (IF HasBit(i, ATTR_REVERSE) THEN <<7>> ELSE <<>>)
          \o (IF HasBit(i, ATTR_STRIKETHROUGH) THEN <<9>> ELSE <<>>)

moveTo(row, col) == <<"move", row, col>>

\* The codes of colorToAnsi(color, isBg), i.e. fgSeq.slice(2, -1).
colorToAnsi(color, isBg) ==
    LET sel == IF isBg THEN 48 ELSE 38
    IN  IF color.kind = "pal" THEN <<sel, 5, color.v>>
        ELSE <<sel, 2, (color.v \div 65536) % 256, (color.v \div 256) % 256,
                       color.v % 256>>

\* attrs: [bold, dim, italic, underline, reverse, strikethrough, fg, bg]
attributesToByte(attrs) ==
      (IF attrs.bold THEN ATTR_BOLD ELSE 0)
    + (IF attrs.dim THEN ATTR_DIM ELSE 0)
    + (IF attrs.italic THEN ATTR_ITALIC ELSE 0)
    + (IF attrs.underline THEN ATTR_UNDERLINE ELSE 0)
    + (IF attrs.reverse THEN ATTR_REVERSE ELSE 0)
    + (IF attrs.strikethrough THEN ATTR_STRIKETHROUGH ELSE 0)

buildAnsiSequence(attrs) ==
    LET attrByte == attributesToByte(attrs)
        base == IF attrByte > 0 THEN ATTR_LUT(attrByte) ELSE <<0>>
        fgp == IF Truthy(attrs.fg) THEN colorToAnsi(attrs.fg, FALSE) ELSE <<>>
        bgp == IF Truthy(attrs.bg) THEN colorToAnsi(attrs.bg, TRUE) ELSE <<>>
    IN  <<"sgr", base \o fgp \o bgp>>

\* The colour-only delta.  The Map cache in front of it returns what this
\* computes (an empty cached string is recomputed), so it is a function.
getCachedColorSequence(fg, bg, needsBgReset) ==
    LET rst == IF needsBgReset /\ ~Truthy(bg) THEN <<49>> ELSE <<>>
        fgp == IF Truthy(fg) THEN colorToAnsi(fg, FALSE) ELSE <<>>
        bgp == IF Truthy(bg) THEN colorToAnsi(bg, TRUE) ELSE <<>>
        parts == rst \o fgp \o bgp
    IN  IF Len(parts) > 0 THEN <<"sgr", parts>> ELSE <<>>

----------------------------------------------------------------------------
(* DiffEngine (src/src/diff.ts).                                           *)

size == rows * cols

\* The constructor's and resize's buffers: every slot the empty cell.
EmptyBuffer(n) == [i \in 0 .. n - 1 |-> emptyCell]

AnsiDefault == [attr |-> 0, fg |-> NoColor, bg |-> NoColor]

\* generateStateChange without the special case for a background that
\* goes back to the default.
generateStateChange_NoBgReset(st, newAttr, newFg, newBg) ==
    LET attrChanged == st.ansi.attr # newAttr
        fgChanged == st.ansi.fg # newFg
        bgChanged == st.ansi.bg # newBg
        seq ==
            IF attrChanged /\ ~fgChanged /\ ~bgChanged
            THEN <<"sgr", ATTR_LUT(newAttr)>>
            ELSE IF ~attrChanged /\ (fgChanged \/ bgChanged)
            THEN getCachedColorSequence(
                     IF fgChanged THEN newFg ELSE st.ansi.fg,
                     IF bgChanged THEN newBg ELSE st.ansi.bg,
                     FALSE)
            ELSE buildAnsiSequence(
                     [bold |-> HasBit(newAttr, 1), dim |-> HasBit(newAttr, 2),
                      italic |-> HasBit(newAttr, 4),
                      underline |-> HasBit(newAttr, 8),
                      reverse |-> HasBit(newAttr, 16),
                      strikethrough |-> HasBit(newAttr, 32),
                      fg |-> IF Truthy(newFg) THEN newFg ELSE NoColor,
                      bg |-> IF Truthy(newBg) THEN newBg ELSE NoColor])
    IN  IF ~(attrChanged \/ fgChanged \/ bgChanged)
        THEN [seq |-> <<>>, ansi |-> st.ansi, hasBg |-> st.hasBg]
        ELSE [seq |-> seq,
              ansi |-> [attr |-> newAttr, fg |-> newFg, bg |-> newBg],
              hasBg |-> st.hasBg \/ newBg # NoColor]

\* generateStateChange(newAttr, newFg, newBg) on the tracker st =
\* [ansi, hasBg]: the escape string (<<>> when empty) and the new tracker.
generateStateChange(st, newAttr, newFg, newBg) ==
    LET attrChanged == st.ansi.attr # newAttr
        fgChanged == st.ansi.fg # newFg
        bgChanged == st.ansi.bg # newBg
        needsBgReset ==
            \/ (st.ansi.bg # NoColor /\ newBg = NoColor)
            \/ (st.hasBg /\ newBg = NoColor /\ st.ansi.bg = NoColor)
        seq ==
            IF attrChanged /\ ~fgChanged /\ ~bgChanged
            THEN <<"sgr", ATTR_LUT(newAttr)>>
            ELSE IF ~attrChanged /\ (fgChanged \/ bgChanged \/ needsBgReset)
            THEN getCachedColorSequence(
                     IF fgChanged THEN newFg ELSE st.ansi.fg,
                     IF bgChanged \/ needsBgReset THEN newBg ELSE st.ansi.bg,
                     needsBgReset)
            ELSE buildAnsiSequence(
                     [bold |-> HasBit(newAttr, 1), dim |-> HasBit(newAttr, 2),
                      italic |-> HasBit(newAttr, 4),
                      underline |-> HasBit(newAttr, 8),
                      reverse |-> HasBit(newAttr, 16),
                      strikethrough |-> HasBit(newAttr, 32),
                      fg |-> IF Truthy(newFg) THEN newFg ELSE NoColor,
                      bg |-> IF Truthy(newBg) THEN newBg ELSE NoColor])
    IN  IF ~(attrChanged \/ fgChanged \/ bgChanged \/ needsBgReset)
        THEN [seq |-> <<>>, ansi |-> st.ansi, hasBg |-> st.hasBg]
        ELSE [seq |-> seq,
              ansi |-> [attr |-> newAttr, fg |-> newFg, bg |-> newBg],
              hasBg |-> st.hasBg \/ newBg # NoColor]

\* findRunEnd: the first column from startCol on whose style differs.
RECURSIVE findRunEnd(_, _, _, _, _, _)
findRunEnd(buf, row, runEnd, runAttr, runFg, runBg) ==
    IF runEnd >= cols THEN runEnd
    ELSE LET c == buf[row * cols + runEnd]
         IN  IF \/ unpackAttr(c) # runAttr
                \/ unpackFgColor(c) # runFg
                \/ unpackBgColor(c) # runBg
             THEN runEnd
             ELSE findRunEnd(buf, row, runEnd + 1, runAttr, runFg, runBg)

runHasChanges(pb, cb, row, startCol, endCol) ==
    \E col \in startCol .. endCol - 1 :
        ~cellEquals(pb[row * cols + col], cb[row * cols + col])

\* The characters of a run, one token per cell.
RECURSIVE RunChars(_, _, _, _)
RunChars(cb, row, i, endCol) ==
    IF i >= endCol THEN <<>>
    ELSE <<(<<"ch", unpackChar(cb[row * cols + i])>>)>>
         \o RunChars(cb, row, i + 1, endCol)

\* A faulty outputRun: the run is written but the front buffer keeps its
\* old cells.
outputRun_FrontKept(f, row, startCol, endCol, runAttr, runFg, runBg) ==
    LET g == generateStateChange(f, runAttr, runFg, runBg)
        sc == IF g.seq = <<>> THEN <<>> ELSE <<g.seq>>
    IN  [f EXCEPT !.out = @ \o sc \o RunChars(curr, row, startCol, endCol),
                  !.ansi = g.ansi,
                  !.hasBg = g.hasBg]

\* outputRun on the frame state f = [out, ansi, hasBg, lastRow, lastCol, pb].
outputRun(f, row, startCol, endCol, runAttr, runFg, runBg) ==
    LET g == generateStateChange(f, runAttr, runFg, runBg)
        sc == IF g.seq = <<>> THEN <<>> ELSE <<g.seq>>
    IN  [f EXCEPT !.out = @ \o sc \o RunChars(curr, row, startCol, endCol),
                  !.ansi = g.ansi,
                  !.hasBg = g.hasBg,
                  !.pb = [i \in DOMAIN f.pb |->
                             IF /\ i >= row * cols + startCol
                                /\ i < row * cols + endCol
                             THEN curr[i] ELSE f.pb[i]]]

\* The while loop over the columns of one dirty row.
RECURSIVE DiffRow(_, _, _)
DiffRow(f, row, col) ==
    IF col >= cols THEN f
    ELSE LET startCell == curr[row * cols + col]
             runAttr == unpackAttr(startCell)
             runFg == unpackFgColor(startCell)
             runBg == unpackBgColor(startCell)
             runEnd == findRunEnd(curr, row, col, runAttr, runFg, runBg)
             hasChanges == runHasChanges(f.pb, curr, row, col, runEnd)
             moved == IF f.lastRow # row \/ f.lastCol # col
                      THEN [f EXCEPT !.out = Append(@, moveTo(row + 1, col + 1)),
                                     !.lastRow = row, !.lastCol = col]
                      ELSE f
             done == [outputRun(moved, row, col, runEnd, runAttr, runFg, runBg)
                        EXCEPT !.lastCol = runEnd]
         IN  DiffRow(IF hasChanges THEN done ELSE f, row, runEnd)

\* The for loop over the rows: clean rows are skipped.
RECURSIVE DiffRows(_, _)
DiffRows(f, row) ==
    IF row >= rows THEN f
    ELSE DiffRows(IF dirty[row] = 1 THEN DiffRow(f, row, 0) ELSE f, row + 1)

ESC_RESET == <<"sgr", <<0>>>>

\* A faulty end of frame: the reset is appended whether or not the frame
\* produced output.
endOfFrame_Unconditional(f) == Append(f.out, ESC_RESET)

\* The end of computeDiff(): a frame that produced output and left the
\* tracked style non-default is closed by ESC[0m.
endOfFrame(f) ==
    IF /\ f.out # <<>>
       /\ (f.ansi.attr # 0 \/ Truthy(f.ansi.fg) \/ Truthy(f.ansi.bg))
    THEN Append(f.out, ESC_RESET)
    ELSE f.out

\* computeDiff(): [out, pb] = the returned string and the new front buffer.
computeDiff ==
    LET f0 == [out |-> <<>>, ansi |-> AnsiDefault, hasBg |-> FALSE,
               lastRow |-> -1, lastCol |-> -1, pb |-> prev]
        f == DiffRows(f0, 0)
    IN  [out |-> endOfFrame(f), pb |-> f.pb]

----------------------------------------------------------------------------
(* The physical terminal: how it interprets the tokens written to it.      *)

\* What a cell of a buffer looks like once drawn.
Shown(cell) == [ch |-> unpackChar(cell), attr |-> unpackAttr(cell),
                fg |-> unpackFgColor(cell), bg |-> unpackBgColor(cell)]

ShownBuffer(buf) == [i \in DOMAIN buf |-> Shown(buf[i])]

SgrAttrBit(code) ==
    CASE code = 1 -> ATTR_BOLD [] code = 2 -> ATTR_DIM
      [] code = 3 -> ATTR_ITALIC [] code = 4 -> ATTR_UNDERLINE
      [] code = 7 -> ATTR_REVERSE [] code = 9 -> ATTR_STRIKETHROUGH
      [] OTHER -> 0

\* Select Graphic Rendition: the terminal applies the codes left to right.
RECURSIVE ApplySgr(_, _, _)
ApplySgr(sgr, codes, i) ==
    IF i > Len(codes) THEN sgr
    ELSE LET c == codes[i]
         IN  IF c = 0 THEN ApplySgr(AnsiDefault, codes, i + 1)
             ELSE IF c = 39 THEN ApplySgr([sgr EXCEPT !.fg = NoColor], codes, i + 1)
             ELSE IF c = 49 THEN ApplySgr([sgr EXCEPT !.bg = NoColor], codes, i + 1)
             ELSE IF c \in {38, 48} /\ i + 2 <= Len(codes) /\ codes[i + 1] = 5
             THEN ApplySgr(IF c = 38 THEN [sgr EXCEPT !.fg = Pal(codes[i + 2])]
                                     ELSE [sgr EXCEPT !.bg = Pal(codes[i + 2])],
                           codes, i + 3)
             ELSE IF c \in {38, 48} /\ i + 4 <= Len(codes) /\ codes[i + 1] = 2
             THEN LET col == Rgb(codes[i + 2] * 65536 + codes[i + 3] * 256
                                 + codes[i + 4])
                  IN  ApplySgr(IF c = 38 THEN [sgr EXCEPT !.fg = col]
                                         ELSE [sgr EXCEPT !.bg = col],
                               codes, i + 5)
             ELSE ApplySgr([sgr EXCEPT !.attr = BitOr(@, SgrAttrBit(c))],
                           codes, i + 1)

\* One token on the terminal t = [cells, sgr, r, c] (cursor 0-based).
TermStep(t, tok) ==
    IF tok[1] = "move" THEN [t EXCEPT !.r = tok[2] - 1, !.c = tok[3] - 1]
    ELSE IF tok[1] = "sgr" THEN [t EXCEPT !.sgr = ApplySgr(t.sgr, tok[2], 1)]
    ELSE LET i == t.r * cols + t.c
         IN  IF t.r < rows /\ t.c < cols
             THEN [t EXCEPT !.cells[i] = [ch |-> tok[2], attr |-> t.sgr.attr,
                                          fg |-> t.sgr.fg, bg |-> t.sgr.bg],
                            !.c = @ + 1]
             ELSE t

RECURSIVE Interpret(_, _, _)
Interpret(t, toks, i) ==
    IF i > Len(toks) THEN t ELSE Interpret(TermStep(t, toks[i]), toks, i + 1)

----------------------------------------------------------------------------
(* The inputs of the DiffEngine operations.                                *)

MaxRows == 2
MaxCols == 2
MaxCells == 2

Dims == {d \in (1 .. MaxRows) \X (1 .. MaxCols) : d[1] * d[2] <= MaxCells}

\* Coordinates: every cell of the grid and the four nearest outside it.
PosInputs(r, c) ==
    ((0 .. r - 1) \X (0 .. c - 1)) \cup {<<-1, 0>>, <<0, -1>>, <<r, 0>>, <<0, c>>}

CharInputs == {120}
FgInputs == {NoColor, Pal(1)}
BgInputs == {NoColor, Rgb(16711680)}

AttrInputs ==
    [bold : BOOLEAN, dim : {FALSE}, italic : {FALSE}, underline : {FALSE},
     reverse : {FALSE}, strikethrough : {FALSE}, fg : FgInputs, bg : BgInputs]

\* Packed cells handed to setCell directly, as the tests do.
CellInputs ==
    {emptyCell, packCell(120, 0, NoColor, NoColor), packCell(120, 1, Pal(1), NoColor)}

----------------------------------------------------------------------------
(* The DiffEngine operations as actions.                                   *)

NoAttrs ==
    [bold |-> FALSE, dim |-> FALSE, italic |-> FALSE, underline |-> FALSE,
     reverse |-> FALSE, strikethrough |-> FALSE, fg |-> NoColor,
     bg |-> NoColor]

\* A recorded call: its name, its arguments (row and col, or rows and cols,
\* in n1 and n2; the attribute byte of packCell in n1) and the cell it
\* took or returned.  tick tells two equal calls in a row apart.
Call(op, n1, n2, ch, attrs, cell, tick) ==
    [op |-> op, n1 |-> n1, n2 |-> n2, ch |-> ch, attrs |-> attrs,
     cell |-> cell, tick |-> tick]

NoCall == Call("none", 0, 0, 0, NoAttrs, emptyCell, 0)

DiffInit ==
    /\ \E d \in Dims : rows = d[1] /\ cols = d[2]
    /\ prev = EmptyBuffer(rows * cols)
    /\ curr = EmptyBuffer(rows * cols)
    /\ dirty = [r \in 0 .. rows - 1 |-> 0]
    /\ output = <<>>
    /\ screen = ShownBuffer(EmptyBuffer(rows * cols))
    /\ termSgr = AnsiDefault
    /\ streak = 0
    /\ call = NoCall

markDirty(row) ==
    IF row >= 0 /\ row < rows THEN [dirty EXCEPT ![row] = 1] ELSE dirty

\* A faulty setCell: the row is marked dirty whether or not the cell
\* changes.
setCell_AlwaysDirty(row, col, cell) ==
    IF row < 0 \/ row >= rows \/ col < 0 \/ col >= cols
    THEN [cb |-> curr, d |-> dirty]
    ELSE [cb |-> [curr EXCEPT ![row * cols + col] = cell],
          d |-> markDirty(row)]

\* setCell(row, col, cell): the new back buffer and dirty flags.
setCell(row, col, cell) ==
    IF row < 0 \/ row >= rows \/ col < 0 \/ col >= cols
    THEN [cb |-> curr, d |-> dirty]
    ELSE IF ~cellEquals(curr[row * cols + col], cell)
         THEN [cb |-> [curr EXCEPT ![row * cols + col] = cell],
               d |-> markDirty(row)]
         ELSE [cb |-> curr, d |-> dirty]

setCellWithAttrs(row, col, ch, attrs) ==
    setCell(row, col, packCell(ch, attributesToByte(attrs), attrs.fg, attrs.bg))

SetCell ==
    \E pos \in PosInputs(rows, cols), cell \in CellInputs :
        LET n == setCell(pos[1], pos[2], cell)
        IN  /\ curr' = n.cb
            /\ dirty' = n.d
            /\ streak' = 0
            /\ UNCHANGED <<rows, cols, prev, output, screen, termSgr, call,
                         notDiff>>

SetCellWithAttrs ==
    \E pos \in PosInputs(rows, cols), ch \in CharInputs, attrs \in AttrInputs :
        LET n == setCellWithAttrs(pos[1], pos[2], ch, attrs)
        IN  /\ curr' = n.cb
            /\ dirty' = n.d
            /\ streak' = 0
            /\ UNCHANGED <<rows, cols, prev, output, screen, termSgr, call,
                         notDiff>>

Clear ==
    /\ curr' = EmptyBuffer(size)
    /\ dirty' = [r \in 0 .. rows - 1 |-> 1]
    /\ streak' = 0
    /\ UNCHANGED <<rows, cols, prev, output, screen, termSgr, call,
                         notDiff>>

MarkDirty ==
    \E row \in -1 .. rows :
        /\ dirty' = markDirty(row)
        /\ streak' = 0
        /\ UNCHANGED <<rows, cols, prev, curr, output, screen, termSgr, call,
                     notDiff>>

MarkAllDirty ==
    /\ dirty' = [r \in 0 .. rows - 1 |-> 1]
    /\ streak' = 0
    /\ UNCHANGED <<rows, cols, prev, curr, output, screen, termSgr, call,
                     notDiff>>

\* resize(rows, cols) as Terminal.handleResize calls it: the physical screen
\* is erased (ESC [ 2 J) before the buffers are reallocated.
Resize ==
    \E d \in Dims :
        /\ ~(d[1] = rows /\ d[2] = cols)
        /\ rows' = d[1]
        /\ cols' = d[2]
        /\ prev' = EmptyBuffer(d[1] * d[2])
        /\ curr' = EmptyBuffer(d[1] * d[2])
        /\ dirty' = [r \in 0 .. d[1] - 1 |-> 1]
        /\ screen' = ShownBuffer(EmptyBuffer(d[1] * d[2]))
        /\ streak' = 0
        /\ UNCHANGED <<output, termSgr, call, notDiff>>

\* computeDiff(), and the terminal interpreting what it returned; the
\* terminal showed the front buffer when the call was made.
ComputeDiff ==
    LET d == computeDiff
        t == Interpret([cells |-> ShownBuffer(prev), sgr |-> termSgr,
                        r |-> 0, c |-> 0], d.out, 1)
    IN  /\ output' = d.out
        /\ prev' = d.pb
        /\ dirty' = [r \in 0 .. rows - 1 |-> 0]
        /\ screen' = t.cells
        /\ termSgr' = t.sgr
        /\ streak' = IF streak < 2 THEN streak + 1 ELSE 2
        /\ UNCHANGED <<rows, cols, curr, call, notDiff>>

\* Terminal.clearScreen(): ESC [ 2 J and ESC [ H are written and flushed.
\* The terminal erases every cell; the engine is not told.
ClearScreen ==
    /\ screen' = ShownBuffer(EmptyBuffer(size))
    /\ call' = [call EXCEPT !.op = "clearScreen"]
    /\ UNCHANGED <<rows, cols, prev, curr, dirty, output, termSgr, streak,
                   notDiff>>

\* Terminal.render(): what computeDiff() returns is written and flushed,
\* and the terminal interprets it on the screen as it is.  (The
\* synchronized-update wrappers draw nothing.)
Render ==
    LET d == computeDiff
        t == Interpret([cells |-> screen, sgr |-> termSgr, r |-> 0, c |-> 0],
                       d.out, 1)
    IN  /\ output' = d.out
        /\ prev' = d.pb
        /\ dirty' = [r \in 0 .. rows - 1 |-> 0]
        /\ screen' = t.cells
        /\ termSgr' = t.sgr
        /\ streak' = IF streak < 2 THEN streak + 1 ELSE 2
        /\ call' = [call EXCEPT !.op = "render"]
        /\ UNCHANGED <<rows, cols, curr, notDiff>>

\* resize(r, c): the new dimensions, buffers and dirty flags.  A call with
\* the dimensions the engine already has returns at once.
resize(r, c) ==
    IF r = rows /\ c = cols
    THEN [rows |-> rows, cols |-> cols, pb |-> prev, cb |-> curr, d |-> dirty]
    ELSE [rows |-> r, cols |-> c, pb |-> EmptyBuffer(r * c),
          cb |-> EmptyBuffer(r * c), d |-> [row \in 0 .. r - 1 |-> 1]]

\* The operations called on the engine by a host that keeps a record of
\* its calls.
EngineSetCell ==
    \E pos \in PosInputs(rows, cols), cell \in CellInputs :
        LET n == setCell(pos[1], pos[2], cell)
        IN  /\ curr' = n.cb
            /\ dirty' = n.d
            /\ streak' = 0
            /\ call' = Call("setCell", pos[1], pos[2], 0, NoAttrs, cell,
                            1 - call.tick)
            /\ UNCHANGED <<rows, cols, prev, output, screen, termSgr, notDiff>>

EngineSetCellWithAttrs ==
    \E pos \in PosInputs(rows, cols), ch \in CharInputs, attrs \in AttrInputs :
        LET n == setCellWithAttrs(pos[1], pos[2], ch, attrs)
        IN  /\ curr' = n.cb
            /\ dirty' = n.d
            /\ streak' = 0
            /\ call' = Call("setCellWithAttrs", pos[1], pos[2], ch, attrs,
                            emptyCell, 1 - call.tick)
            /\ UNCHANGED <<rows, cols, prev, output, screen, termSgr, notDiff>>

\* engine.resize(r, c) called directly: nothing is written to the terminal.
EngineResize ==
    \E d \in Dims :
        LET n == resize(d[1], d[2])
        IN  /\ rows' = n.rows
            /\ cols' = n.cols
            /\ prev' = n.pb
            /\ curr' = n.cb
            /\ dirty' = n.d
            /\ streak' = 0
            /\ call' = Call("resize", d[1], d[2], 0, NoAttrs, emptyCell,
                            1 - call.tick)
            /\ UNCHANGED <<output, screen, termSgr, notDiff>>


----------------------------------------------------------------------------
(* Input protocol tables (protocols.ts, in src/src/input/reader.ts) and    *)
(* the terminal quirk tables (src/src/input/terminal-quirks.ts).  A string *)
(* is the sequence of its character codes; a KeyCode is a record: a named  *)
(* key has cp = -1, the object {char} has name "char" and cp the code of   *)
(* its character, and the debugging codes "Unknown:..." carry the byte     *)
(* that follows the prefix.                                                *)

MAX_CSI_PARAM == 16777215
MAX_CSI_PARAMS == 16
SEQUENCE_BUFFER_SIZE == 256

Named(n) == [name |-> n, cp |-> -1]
CharKey(c) == [name |-> "char", cp |-> c]
UnknownKey(prefix, c) == [name |-> prefix, cp |-> c]
NoKey == [name |-> "", cp |-> -1]

\* CTRL_CHARS[byte], NoKey where the table has no entry.
CTRL_CHARS(byte) ==
    IF byte = 0 THEN CharKey(0)
    ELSE IF byte = 9 THEN Named("Tab")
    ELSE IF byte = 13 THEN Named("Enter")
    ELSE IF byte = 27 THEN Named("Escape")
    ELSE IF byte = 127 THEN Named("Backspace")
    ELSE IF byte >= 1 /\ byte <= 26 THEN CharKey(96 + byte)
    ELSE NoKey

\* CSI_KEY_MAP[final] for a key that is one letter.
CSI_KEY_MAP_Final(final) ==
    CASE final = 65 -> Named("Up") [] final = 66 -> Named("Down")
      [] final = 67 -> Named("Right") [] final = 68 -> Named("Left")
      [] final = 72 -> Named("Home") [] final = 70 -> Named("End")
      [] OTHER -> NoKey

\* CSI_KEY_MAP[`${n}~`].
CSI_KEY_MAP_Tilde(n) ==
    CASE n = 1 -> Named("Home") [] n = 2 -> Named("Insert")
      [] n = 3 -> Named("Delete") [] n = 4 -> Named("End")
      [] n = 5 -> Named("PageUp") [] n = 6 -> Named("PageDown")
      [] n = 7 -> Named("Home") [] n = 8 -> Named("End")
      [] n = 11 -> Named("F1") [] n = 12 -> Named("F2")
      [] n = 13 -> Named("F3") [] n = 14 -> Named("F4")
      [] n = 15 -> Named("F5") [] n = 17 -> Named("F6")
      [] n = 18 -> Named("F7") [] n = 19 -> Named("F8")
      [] n = 20 -> Named("F9") [] n = 21 -> Named("F10")
      [] n = 23 -> Named("F11") [] n = 24 -> Named("F12")
      [] OTHER -> NoKey

\* CSI_KEY_MAP[params.join(';') + intermediates + final]: no key of the
\* table holds an intermediate character.
CSI_KEY_MAP(params, intermediates, final) ==
    IF intermediates # <<>> THEN NoKey
    ELSE IF params = <<>> THEN CSI_KEY_MAP_Final(final)
    ELSE IF Len(params) = 1 /\ final = 126 THEN CSI_KEY_MAP_Tilde(params[1])
    ELSE IF params = <<1, 2>> /\ final \in 80 .. 83
         THEN Named(<<"F1", "F2", "F3", "F4">>[final - 79])
    ELSE NoKey

SS3_KEY_MAP(byte) ==
    IF byte \in 80 .. 83 THEN Named(<<"F1", "F2", "F3", "F4">>[byte - 79])
    ELSE CSI_KEY_MAP_Final(byte)

\* SGR_BUTTON_MAP[code], "null" where `code in SGR_BUTTON_MAP` is false.
SGR_BUTTON_MAP(code) ==
    CASE code = 0 -> "1" [] code = 1 -> "3" [] code = 2 -> "2"
      [] code = 64 -> "WheelUp" [] code = 65 -> "WheelDown"
      [] code = 66 -> "WheelLeft" [] code = 67 -> "WheelRight"
      [] OTHER -> "null"

\* (n & mask) !== 0 for a one-bit mask and a 32-bit n >= -1.
BitSet(n, mask) == IF n < 0 THEN TRUE ELSE (n \div mask) % 2 = 1

NoMods == [shift |-> FALSE, alt |-> FALSE, ctrl |-> FALSE, meta |-> FALSE]

\* The terminal types getTerminalType() tells apart.
TerminalTypes == {"kitty", "ghostty", "iterm", "tmux", "unknown"}

shouldApplyQuirks(type) == type \notin {"kitty", "ghostty"}

\* remapKeyCode(unicode, originalKey): the name of the key.
remapKeyCode(type, unicode, originalKey) ==
    IF ~shouldApplyQuirks(type) THEN originalKey
    ELSE IF type = "iterm"
    THEN CASE unicode = 57442 -> "Control" [] unicode = 57443 -> "Alt"
           [] unicode = 57444 -> "Meta" [] unicode = 57447 -> "Shift"
           [] unicode = 57449 -> "Alt" [] unicode = 57450 -> "Meta"
           [] OTHER -> originalKey
    ELSE IF type = "unknown"
    THEN CASE unicode = 57442 -> "Control" [] unicode = 57443 -> "Alt"
           [] unicode = 57444 -> "Meta" [] OTHER -> originalKey
    ELSE originalKey

\* remapControlChar(byte) is non-null: Meta+Backspace sent as \x15 by iTerm.
remapControlChar(type, byte) == type = "iterm" /\ byte = 21

\* remapAltEscapeChar(char): NoKey for null.
remapAltEscapeChar(type, c) ==
    IF shouldApplyQuirks(type) /\ c = 98 THEN Named("Left")
    ELSE IF shouldApplyQuirks(type) /\ c = 102 THEN Named("Right")
    ELSE NoKey

----------------------------------------------------------------------------
(* InputDecoder (decoder.ts).  The decoder object is a record d of its     *)
(* private fields; buffer holds the bufferPos bytes in use.  termType is   *)
(* what getTerminalType() reads from the environment.  threw is set by an  *)
(* operation that ends by throwing.                                        *)

\* new TextDecoder().decode(bytes): UTF-8, malformed parts become U+FFFD.
\* The number of continuation bytes the lead byte b asks for, -1 for a
\* byte that cannot start a character.
Utf8Need(b) ==
    IF b < 128 THEN 0
    ELSE IF b >= 194 /\ b <= 223 THEN 1
    ELSE IF b >= 224 /\ b <= 239 THEN 2
    ELSE IF b >= 240 /\ b <= 244 THEN 3
    ELSE -1

\* Byte i + k continues the character that starts at byte i.
Utf8Cont(bytes, i, k) ==
    /\ i + k <= Len(bytes)
    /\ bytes[i + k] >= (IF k > 1 THEN 128
                        ELSE IF bytes[i] = 224 THEN 160
                        ELSE IF bytes[i] = 240 THEN 144 ELSE 128)
    /\ bytes[i + k] <= (IF k > 1 THEN 191
                        ELSE IF bytes[i] = 237 THEN 159
                        ELSE IF bytes[i] = 244 THEN 143 ELSE 191)

\* The character at byte i and the number of bytes it takes.
Utf8Step(bytes, i) ==
    LET b == bytes[i]
    IN  CASE Utf8Need(b) = 0 -> [cp |-> b, len |-> 1]
          [] Utf8Need(b) = -1 -> [cp |-> 65533, len |-> 1]
          [] Utf8Need(b) >= 1 /\ ~Utf8Cont(bytes, i, 1) ->
                 [cp |-> 65533, len |-> 1]
          [] Utf8Need(b) = 1 /\ Utf8Cont(bytes, i, 1) ->
                 [cp |-> (b % 32) * 64 + (bytes[i + 1] % 64), len |-> 2]
          [] Utf8Need(b) >= 2 /\ Utf8Cont(bytes, i, 1)
                /\ ~Utf8Cont(bytes, i, 2) -> [cp |-> 65533, len |-> 2]
          [] Utf8Need(b) = 2 /\ Utf8Cont(bytes, i, 1)
                /\ Utf8Cont(bytes, i, 2) ->
                 [cp |-> (b % 16) * 4096 + (bytes[i + 1] % 64) * 64
                         + (bytes[i + 2] % 64), len |-> 3]
          [] Utf8Need(b) = 3 /\ Utf8Cont(bytes, i, 1)
                /\ Utf8Cont(bytes, i, 2) /\ ~Utf8Cont(bytes, i, 3) ->
                 [cp |-> 65533, len |-> 3]
          [] OTHER ->
                 [cp |-> (b % 8) * 262144 + (bytes[i + 1] % 64) * 4096
                         + (bytes[i + 2] % 64) * 64 + (bytes[i + 3] % 64),
                  len |-> 4]

RECURSIVE Utf8Decode(_, _)
Utf8Rest(bytes, i, step) ==
    <<step.cp>> \o Utf8Decode(bytes, i + step.len)

Utf8Decode(bytes, i) ==
    IF i > Len(bytes) THEN <<>> ELSE Utf8Rest(bytes, i, Utf8Step(bytes, i))

\* decode() drops a leading byte order mark.
StripBOM(t) == IF Len(t) > 0 /\ t[1] = 65279 THEN Tail(t) ELSE t

TextDecode(bytes) == StripBOM(Utf8Decode(bytes, 1))

\* The constructor: options kittyKeyboard and quirks, then reset().
NewDecoder(kitty, quirks, type) ==
    [state |-> "idle", buffer |-> <<>>, params |-> <<>>,
     intermediates |-> <<>>, final |-> 0, events |-> <<>>,
     lastMouseButton |-> "null", pasteBuffer |-> <<>>, inPaste |-> FALSE,
     oscBuffer |-> <<>>, oscParam |-> <<>>,
     kittyEnabled |-> kitty, quirksEnabled |-> quirks,
     physicalModifierState |-> NoMods, termType |-> type, threw |-> FALSE]

reset(d) ==
    [d EXCEPT !.state = "idle", !.buffer = <<>>, !.params = <<>>,
              !.intermediates = <<>>, !.final = 0,
              !.oscBuffer = <<>>, !.oscParam = <<>>]

getRawSequence(d) == TextDecode(d.buffer)

\* The events; every event record has the same fields, those its type does
\* not have hold "", "null", 0 or the empty string.
KeyEvent(code, modifiers, repeat, kind, raw) ==
    [type |-> "key", code |-> code, modifiers |-> modifiers,
     repeat |-> repeat, kind |-> kind, button |-> "null", x |-> 0, y |-> 0,
     content |-> <<>>, raw |-> raw]

MouseEvent(kind, button, x, y, modifiers, raw) ==
    [type |-> "mouse", code |-> NoKey, modifiers |-> modifiers,
     repeat |-> FALSE, kind |-> kind, button |-> button, x |-> x, y |-> y,
     content |-> <<>>, raw |-> raw]

TextEvent(type, content) ==
    [type |-> type, code |-> NoKey, modifiers |-> NoMods,
     repeat |-> FALSE, kind |-> "", button |-> "null", x |-> 0, y |-> 0,
     content |-> content, raw |-> <<>>]

\* emitKey(code, isCtrl, additionalMods, kind); kind "" is undefined.
emitKey(d, code, isCtrl, additionalMods, kind) ==
    LET modifiers == [ctrl |-> isCtrl \/ additionalMods.ctrl,
                      alt |-> additionalMods.alt,
                      shift |-> additionalMods.shift,
                      meta |-> additionalMods.meta]
        event == KeyEvent(code, modifiers, kind = "repeat", kind,
                          getRawSequence(d))
    IN  reset([d EXCEPT !.events = Append(@, event)])

\* emitMouse(button, x, y, protocol).
emitMouse(d, button, x, y, protocol) ==
    LET b == button % 256
        modifiers == [shift |-> BitSet(b, 4), alt |-> BitSet(b, 8),
                      ctrl |-> BitSet(b, 16), meta |-> BitSet(b, 32)]
        buttonCode == IF protocol = "sgr"
                      THEN IF button >= 64 /\ button <= 67 THEN button
                           ELSE button % 4
                      ELSE ((b \div 64) % 2) * 64 + (b % 4)
        isRelease == protocol = "sgr" /\ d.final = 109
        isMotion == BitSet(b, 32)
        inMap == SGR_BUTTON_MAP(buttonCode) # "null"
        mapped == SGR_BUTTON_MAP(buttonCode)
        isWheel == buttonCode \in 64 .. 67
        hasLast == d.lastMouseButton # "null"
        kind == IF inMap
                THEN IF isWheel THEN "scroll"
                     ELSE IF isRelease THEN "up"
                     ELSE IF isMotion
                     THEN (IF hasLast THEN "drag" ELSE "move")
                     ELSE "down"
                ELSE IF isMotion THEN (IF hasLast THEN "drag" ELSE "move")
                ELSE "down"
        mappedButton == IF inMap THEN mapped
                        ELSE IF isMotion THEN d.lastMouseButton
                        ELSE "null"
        last == IF inMap /\ ~isWheel
                THEN IF isRelease THEN "null"
                     ELSE IF isMotion THEN d.lastMouseButton
                     ELSE mapped
                ELSE d.lastMouseButton
        event == MouseEvent(kind, mappedButton, x, y, modifiers,
                            getRawSequence(d))
    IN  [d EXCEPT !.events = Append(@, event), !.lastMouseButton = last]

\* The modifier bits of a parameter value minus one.
ModBits(modParam) ==
    [shift |-> BitSet(modParam, 1), alt |-> BitSet(modParam, 2),
     ctrl |-> BitSet(modParam, 4), meta |-> BitSet(modParam, 8)]

extractModifiers(d) ==
    IF Len(d.params) < 2 THEN NoMods ELSE ModBits(d.params[2] - 1)

extractModifiersFromParam(param) ==
    IF param = 0 \/ param = 1 THEN NoMods ELSE ModBits(param - 1)

extractKittyModifiers(modifiers) ==
    IF modifiers = 0 \/ modifiers = 1 THEN NoMods ELSE ModBits(modifiers - 1)

\* mapUnicodeToKeyCode(unicode): the key's name, "" for null.
mapUnicodeToKeyCode(unicode) ==
    CASE unicode = 13 -> "Enter" [] unicode = 27 -> "Escape"
      [] unicode = 9 -> "Tab" [] unicode = 127 -> "Backspace"
      [] unicode = 1792833 -> "Up" [] unicode = 1792834 -> "Down"
      [] unicode = 1792835 -> "Right" [] unicode = 1792836 -> "Left"
      [] unicode = 1789776 -> "F1" [] unicode = 1789777 -> "F2"
      [] unicode = 1789778 -> "F3" [] unicode = 1789779 -> "F4"
      [] unicode \in {57441, 57442} -> "Shift"
      [] unicode \in {57443, 57444} -> "Control"
      [] unicode \in {57445, 57446} -> "Alt"
      [] unicode \in {57447, 57448} -> "Meta"
      [] unicode = 57449 -> "CapsLock" [] unicode = 57450 -> "NumLock"
      [] unicode = 57451 -> "ScrollLock"
      [] unicode \in {1792819, 2221} -> "Delete"
      [] unicode = 2 -> "Insert" [] unicode = 5 -> "PageUp"
      [] unicode = 6 -> "PageDown" [] unicode = 1 -> "Home"
      [] unicode = 4 -> "End"
      [] OTHER -> ""

\* The event kind of an event-type parameter; "" is undefined.
KindOf(eventType) ==
    CASE eventType = 1 -> "press" [] eventType = 2 -> "repeat"
      [] eventType = 3 -> "release" [] OTHER -> ""

handleX10Mouse(d) ==
    IF Len(d.buffer) < 6 THEN d
    ELSE emitMouse(d, d.buffer[4] - 32, d.buffer[5] - 32, d.buffer[6] - 32,
                   "x10")

handleSGRMouseComplete(d) ==
    IF Len(d.params) < 3 THEN d
    ELSE emitMouse(d, d.params[1],
                   IF d.params[2] = 0 THEN 1 ELSE d.params[2],
                   IF d.params[3] = 0 THEN 1 ELSE d.params[3], "sgr")

\* The workaround of handleKittyKeyboard: a modifier the decoder has not
\* seen pressed is cleared when quirks are enabled.
AdjustModifiers(d, phys, m) ==
    IF d.quirksEnabled
    THEN [shift |-> m.shift /\ phys.shift, ctrl |-> m.ctrl /\ phys.ctrl,
          alt |-> m.alt /\ phys.alt, meta |-> m.meta /\ phys.meta]
    ELSE m

\* The largest code point String.fromCodePoint accepts; a larger argument
\* throws RangeError.
MaxCodePoint == 1114111

handleKittyKeyboard(d) ==
    IF d.params = <<>> THEN d
    ELSE
    LET unicode == d.params[1]
        modifiers == IF Len(d.params) = 1 THEN 1 ELSE d.params[2]
        eventType == IF Len(d.params) >= 3 THEN d.params[3] ELSE 1
        kind == CASE eventType = 2 -> "repeat" [] eventType = 3 -> "release"
                  [] OTHER -> "press"
        kittyModifiers == extractKittyModifiers(modifiers)
        keyCode == mapUnicodeToKeyCode(unicode)
        actualKeyCode == IF d.quirksEnabled
                         THEN remapKeyCode(d.termType, unicode, keyCode)
                         ELSE keyCode
        stateKey == IF actualKeyCode = "Control" THEN "ctrl"
                    ELSE IF actualKeyCode = "Shift" THEN "shift"
                    ELSE IF actualKeyCode = "Alt" THEN "alt" ELSE "meta"
        phys == IF kind = "release"
                THEN [d.physicalModifierState EXCEPT ![stateKey] = FALSE]
                ELSE IF kind = "press"
                THEN [d.physicalModifierState EXCEPT ![stateKey] = TRUE]
                ELSE d.physicalModifierState
    IN  IF unicode = 0 THEN d
        ELSE IF /\ unicode = 27 /\ kind = "release"
                /\ (kittyModifiers.ctrl \/ kittyModifiers.meta)
        THEN emitKey(d, Named("Escape"), FALSE, kittyModifiers, "")
        ELSE IF keyCode # ""
        THEN IF actualKeyCode \in {"Shift", "Control", "Alt", "Meta"}
             THEN emitKey([d EXCEPT !.physicalModifierState = phys],
                          Named(actualKeyCode), FALSE,
                          [AdjustModifiers(d, phys, kittyModifiers)
                             EXCEPT ![stateKey] = FALSE],
                          kind)
             ELSE emitKey(d, Named(keyCode), FALSE,
                          AdjustModifiers(d, d.physicalModifierState,
                                          kittyModifiers),
                          kind)
        ELSE IF unicode >= 32
        THEN IF unicode > MaxCodePoint THEN [d EXCEPT !.threw = TRUE]
             ELSE emitKey(d, CharKey(unicode), FALSE,
                          AdjustModifiers(d, d.physicalModifierState,
                                          kittyModifiers),
                          kind)
        ELSE d

lookupCSIKey(d) ==
    LET keyFromLookup == CSI_KEY_MAP(d.params, d.intermediates, d.final)
    IN  IF keyFromLookup # NoKey THEN keyFromLookup
        ELSE CSI_KEY_MAP_Final(d.final)

\* The last element of params (params.at(-1)).
LastParam(d) == d.params[Len(d.params)]

handleCSISequence(d) ==
    LET n == Len(d.params)
        modParam == IF d.params[2] = 0 THEN 1 ELSE d.params[2]
        mods == IF modParam > 1 THEN extractModifiers(d) ELSE NoMods
        arrows == CSI_KEY_MAP_Final(d.final)
        tildeKey == CSI_KEY_MAP_Tilde(d.params[1])
        pressKind == IF d.kittyEnabled THEN "press" ELSE ""
        key == lookupCSIKey(d)
    IN  IF d.final = 126 /\ n >= 1 /\ d.params[1] = 200
        THEN [d EXCEPT !.state = "paste", !.inPaste = TRUE,
                       !.pasteBuffer = <<>>, !.buffer = <<>>]
        ELSE IF d.final = 117 /\ d.intermediates = <<>>
        THEN handleKittyKeyboard(d)
        ELSE IF d.intermediates = <<60>> /\ d.final \in {77, 109}
        THEN handleSGRMouseComplete(d)
        ELSE IF d.final = 77 THEN handleX10Mouse(d)
        ELSE IF d.final \in {65, 66, 67, 68, 72, 70} /\ n >= 2
        THEN emitKey(d, arrows, FALSE, mods, KindOf(LastParam(d)))
        ELSE IF d.final \in 80 .. 83 /\ n >= 2
        THEN emitKey(d, SS3_KEY_MAP(d.final), FALSE, mods,
                     KindOf(LastParam(d)))
        ELSE IF /\ d.final = 126 /\ n >= 2
                /\ LastParam(d) \in 1 .. 3 /\ d.params[n - 1] = 1
                /\ tildeKey # NoKey
        THEN emitKey(d, tildeKey, FALSE, NoMods, KindOf(LastParam(d)))
        ELSE IF d.final = 126 /\ n >= 2 /\ tildeKey # NoKey
        THEN emitKey(d, tildeKey, FALSE,
                     IF d.params[2] > 1
                     THEN extractModifiersFromParam(d.params[2]) ELSE NoMods,
                     IF n = 2 THEN pressKind ELSE KindOf(LastParam(d)))
        ELSE IF key # NoKey
        THEN emitKey(d, key, FALSE, extractModifiers(d), pressKind)
        ELSE emitKey(d, UnknownKey("Unknown:", d.final), FALSE,
                     extractModifiers(d), pressKind)

handleControlChar(d, byte) ==
    IF d.quirksEnabled /\ remapControlChar(d.termType, byte)
    THEN emitKey(d, Named("Backspace"), FALSE,
                 [NoMods EXCEPT !.meta = TRUE], "")
    ELSE IF CTRL_CHARS(byte) # NoKey
    THEN emitKey(d, CTRL_CHARS(byte),
                 byte < 32 /\ byte \notin {9, 10, 13, 27}, NoMods, "")
    ELSE d

handleEscapeChar(d, byte) ==
    IF byte >= 32 /\ byte < 127
    THEN LET remappedKey == IF d.quirksEnabled
                            THEN remapAltEscapeChar(d.termType, byte)
                            ELSE NoKey
         IN  emitKey(d, IF remappedKey # NoKey THEN remappedKey
                        ELSE CharKey(byte),
                     FALSE, [NoMods EXCEPT !.alt = TRUE], "")
    ELSE emitKey(d, UnknownKey("Unknown:ESC+", byte), FALSE, NoMods, "")

\* string.endsWith(suffix) on sequences of character codes.
EndsWith(str, suffix) ==
    /\ Len(str) >= Len(suffix)
    /\ SubSeq(str, Len(str) - Len(suffix) + 1, Len(str)) = suffix

\* string.indexOf(c), 1-based; 0 when c does not occur.
IndexOf(str, c) ==
    LET at == {i \in 1 .. Len(str) : str[i] = c}
    IN  IF at = {} THEN 0 ELSE CHOOSE i \in at : \A j \in at : i <= j

PASTE_END == <<27, 91, 50, 48, 49, 126>>

\* The value of a base64 character, -1 for any other character.
Base64Value(c) ==
    IF c >= 65 /\ c <= 90 THEN c - 65
    ELSE IF c >= 97 /\ c <= 122 THEN c - 71
    ELSE IF c >= 48 /\ c <= 57 THEN c + 4
    ELSE IF c = 43 \/ c = 45 THEN 62
    ELSE IF c = 47 \/ c = 95 THEN 63
    ELSE -1

\* The base64 digits of a string up to the first '=': Buffer.from skips
\* every other character.
RECURSIVE Base64Digits(_, _)
Base64Digits(str, i) ==
    IF i > Len(str) \/ str[i] = 61 THEN <<>>
    ELSE IF Base64Value(str[i]) < 0 THEN Base64Digits(str, i + 1)
    ELSE <<Base64Value(str[i])>> \o Base64Digits(str, i + 1)

RECURSIVE Base64Bytes(_, _)
Base64Bytes(v, i) ==
    LET left == Len(v) - i + 1
    IN  IF left < 2 THEN <<>>
        ELSE IF left = 2 THEN <<v[i] * 4 + (v[i + 1] \div 16)>>
        ELSE IF left = 3
        THEN <<v[i] * 4 + (v[i + 1] \div 16),
               (v[i + 1] % 16) * 16 + (v[i + 2] \div 4)>>
        ELSE <<v[i] * 4 + (v[i + 1] \div 16),
               (v[i + 1] % 16) * 16 + (v[i + 2] \div 4),
               (v[i + 2] % 4) * 64 + v[i + 3]>> \o Base64Bytes(v, i + 4)

\* Buffer.from(data, 'base64').toString('utf8').
Base64ToUtf8(str) == Utf8Decode(Base64Bytes(Base64Digits(str, 1), 1), 1)

\* handleOSCSequence: OSC 52 ; c ; <base64> is a clipboard response.
handleOSCSequence(d) ==
    LET semi == IndexOf(d.oscBuffer, 59)
        rest == SubSeq(d.oscBuffer, semi + 1, Len(d.oscBuffer))
        semi2 == IndexOf(rest, 59)
        part1 == IF semi2 = 0 THEN rest ELSE SubSeq(rest, 1, semi2 - 1)
        d1 == IF /\ d.oscParam = <<53, 50>>
                 /\ semi = 2 /\ d.oscBuffer[1] = 99
              THEN [d EXCEPT !.events =
                        Append(@, TextEvent("clipboard", Base64ToUtf8(part1)))]
              ELSE d
    IN  [d1 EXCEPT !.oscBuffer = <<>>, !.oscParam = <<>>]

\* processIdle that emits printable bytes whether or not Kitty is enabled.
processIdle_PrintableKept(d, byte) ==
    IF byte = 27 THEN [d EXCEPT !.state = "escape", !.buffer = <<byte>>]
    ELSE IF byte < 32 \/ byte = 127
    THEN IF d.kittyEnabled
         THEN IF d.quirksEnabled /\ remapControlChar(d.termType, byte)
              THEN handleControlChar(d, byte)
              ELSE d
         ELSE handleControlChar(d, byte)
    ELSE emitKey(d, CharKey(byte), FALSE, NoMods, "")

processIdle(d, byte) ==
    IF byte = 27 THEN [d EXCEPT !.state = "escape", !.buffer = <<byte>>]
    ELSE IF byte < 32 \/ byte = 127
    THEN IF d.kittyEnabled
         THEN IF d.quirksEnabled /\ remapControlChar(d.termType, byte)
              THEN handleControlChar(d, byte)
              ELSE d
         ELSE handleControlChar(d, byte)
    ELSE IF ~d.kittyEnabled
    THEN emitKey(d, CharKey(byte), FALSE, NoMods, "")
    ELSE d

processEscape(d, byte) ==
    CASE byte = 91 -> [d EXCEPT !.state = "csi", !.params = <<>>,
                                !.intermediates = <<>>]
      [] byte = 79 -> [d EXCEPT !.state = "ss3"]
      [] byte = 80 -> [d EXCEPT !.state = "dcs"]
      [] byte = 93 -> [d EXCEPT !.state = "osc", !.oscBuffer = <<>>,
                                !.oscParam = <<>>]
      [] OTHER -> reset(handleEscapeChar(d, byte))

\* The final byte of a CSI sequence, in each of the three CSI states: the
\* decoder is reset unless the sequence opened a paste; a throw leaves it
\* as it is.
AfterCSI(h) == IF h.threw \/ h.state = "paste" THEN h ELSE reset(h)

CSIFinal(d, byte) == AfterCSI(handleCSISequence([d EXCEPT !.final = byte]))

processCSI(d, byte) ==
    IF byte >= 48 /\ byte <= 57
    THEN [d EXCEPT !.state = "csi_param", !.params = Append(@, byte - 48)]
    ELSE IF byte = 59 \/ byte = 58
    THEN [d EXCEPT !.state = "csi_param", !.params = Append(@, 0)]
    ELSE IF byte = 60
    THEN [d EXCEPT !.state = "csi_param", !.intermediates = <<60>>]
    ELSE IF byte >= 32 /\ byte <= 47
    THEN [d EXCEPT !.state = "csi_intermediate", !.intermediates = <<byte>>]
    ELSE IF byte >= 64 /\ byte <= 126 THEN CSIFinal(d, byte)
    ELSE reset(d)

processCSIParam(d, byte) ==
    IF byte >= 48 /\ byte <= 57
    THEN IF d.params = <<>> THEN [d EXCEPT !.params = <<byte - 48>>]
         ELSE IF LastParam(d) < MAX_CSI_PARAM
         THEN [d EXCEPT !.params[Len(d.params)] = @ * 10 + (byte - 48)]
         ELSE d
    ELSE IF byte = 59 \/ byte = 58
    THEN IF Len(d.params) < MAX_CSI_PARAMS
         THEN [d EXCEPT !.params = Append(@, 0)]
         ELSE d
    ELSE IF byte >= 32 /\ byte <= 47
    THEN [d EXCEPT !.state = "csi_intermediate",
                   !.intermediates = Append(@, byte)]
    ELSE IF byte >= 64 /\ byte <= 126 THEN CSIFinal(d, byte)
    ELSE reset(d)

processCSIIntermediate(d, byte) ==
    IF byte >= 48 /\ byte <= 57
    THEN [d EXCEPT !.state = "csi_param", !.params = Append(@, byte - 48)]
    ELSE IF byte >= 32 /\ byte <= 47
    THEN [d EXCEPT !.intermediates = Append(@, byte)]
    ELSE IF byte >= 64 /\ byte <= 126 THEN CSIFinal(d, byte)
    ELSE reset(d)

processSS3(d, byte) ==
    reset(IF SS3_KEY_MAP(byte) # NoKey
          THEN emitKey(d, SS3_KEY_MAP(byte), FALSE, NoMods, "")
          ELSE emitKey(d, UnknownKey("Unknown:SS3+", byte), FALSE, NoMods, ""))

\* processPaste without the slice that removes the end sequence.
processPaste_MarkerKept(d, byte) ==
    LET pb == Append(d.pasteBuffer, byte)
    IN  IF Len(pb) >= 6 /\ EndsWith(pb, PASTE_END)
        THEN reset([d EXCEPT
                      !.events = Append(@, TextEvent("paste", pb)),
                      !.pasteBuffer = <<>>, !.inPaste = FALSE])
        ELSE [d EXCEPT !.pasteBuffer = pb]

processPaste(d, byte) ==
    LET pb == Append(d.pasteBuffer, byte)
    IN  IF Len(pb) >= 6 /\ EndsWith(pb, PASTE_END)
        THEN reset([d EXCEPT
                      !.events = Append(@, TextEvent("paste",
                                           SubSeq(pb, 1, Len(pb) - 6))),
                      !.pasteBuffer = <<>>, !.inPaste = FALSE])
        ELSE [d EXCEPT !.pasteBuffer = pb]

\* The cap of processOSC on the OSC accumulator.
OSC_LIMIT == 10000

processOSC(d, byte) ==
    IF byte = 27 THEN [d EXCEPT !.oscBuffer = Append(@, 27)]
    ELSE IF byte = 92 /\ EndsWith(d.oscBuffer, <<27>>)
    THEN reset(handleOSCSequence(
             [d EXCEPT !.oscBuffer = SubSeq(@, 1, Len(@) - 1)]))
    ELSE IF byte = 7 THEN reset(handleOSCSequence(d))
    ELSE LET ob == Append(d.oscBuffer, byte)
             semi == IndexOf(ob, 59)
         IN  IF Len(ob) > OSC_LIMIT THEN reset(d)
             ELSE IF d.oscParam = <<>> /\ semi > 0
             THEN [d EXCEPT !.oscParam = SubSeq(ob, 1, semi - 1),
                            !.oscBuffer = SubSeq(ob, semi + 1, Len(ob))]
             ELSE [d EXCEPT !.oscBuffer = ob]

\* processByte: the byte is stored in the raw buffer while there is room,
\* then handled by the current state.
processByte(d0, byte) ==
    LET d == IF Len(d0.buffer) < SEQUENCE_BUFFER_SIZE
             THEN [d0 EXCEPT !.buffer = Append(@, byte)]
             ELSE d0
    IN  CASE d.state = "idle" -> processIdle(d, byte)
          [] d.state = "escape" -> processEscape(d, byte)
          [] d.state = "csi" -> processCSI(d, byte)
          [] d.state = "csi_param" -> processCSIParam(d, byte)
          [] d.state = "csi_intermediate" -> processCSIIntermediate(d, byte)
          [] d.state = "ss3" -> processSS3(d, byte)
          [] d.state = "paste" -> processPaste(d, byte)
          [] d.state = "osc" -> processOSC(d, byte)
          [] d.state = "dcs" ->
                 IF byte = 27 THEN [d EXCEPT !.state = "escape"]
                 ELSE IF byte = 7 THEN reset(d)
                 ELSE d
          [] OTHER -> reset(d)

\* feed(data) on the bytes data[lo .. hi], in order: the loop is unrolled
\* by halves.  An exception ends the call: no later byte of the chunk is
\* processed.
RECURSIVE feed(_, _, _, _)
feed(d, data, lo, hi) ==
    IF lo > hi THEN d
    ELSE IF lo = hi THEN processByte(d, data[lo])
    ELSE LET first == feed(d, data, lo, (lo + hi) \div 2)
         IN  IF first.threw THEN first
             ELSE feed(first, data, (lo + hi) \div 2 + 1, hi)

----------------------------------------------------------------------------
(* The bytes the terminal sends.                                           *)

MaxChunk == 3
MaxNoiseLen == 2
MaxSemis == 17
MaxTail == 2

\* Complete valid sequences: Up, F1 (SS3), PageUp, Shift+Tab-like CSI with
\* a modifier, an SGR mouse press, a Kitty key and a bracketed paste.
ValidSeqs ==
    {<<27, 91, 65>>, <<27, 79, 80>>, <<27, 91, 53, 126>>,
     <<27, 91, 49, 59, 53, 67>>,
     <<27, 91, 60, 48, 59, 49, 59, 49, 77>>,
     <<27, 91, 57, 55, 117>>,
     <<27, 91, 50, 48, 48, 126, 120, 27, 91, 50, 48, 49, 126>>}

\* Escape sequences cut short or made malformed by a byte that cannot
\* continue them.
BrokenSeqs ==
    {<<27>>, <<27, 91>>, <<27, 91, 49>>, <<27, 91, 49, 59>>, <<27, 91, 33>>,
     <<27, 79>>, <<27, 91, 60, 48, 59>>, <<27, 91, 49, 0>>, <<27, 91, 63>>,
     <<27, 91, 33, 0>>}

\* Bytes of arbitrary noise.
NoiseBytes == {0, 27, 33, 49, 59, 65, 91, 97, 117, 126}

RECURSIVE Strings(_, _)
Strings(alphabet, n) ==
    IF n = 0 THEN {<<>>}
    ELSE LET shorter == Strings(alphabet, n - 1)
         IN  shorter \cup {Append(w, b) : w \in shorter, b \in alphabet}

RECURSIVE Repeat(_, _)
Repeat(w, n) == IF n = 0 THEN <<>> ELSE w \o Repeat(w, n - 1)

\* CSI noise: ESC [, k separators, then j times "!1".
CsiNoise ==
    {<<27, 91>> \o Repeat(<<59>>, k) \o Repeat(<<33, 49>>, j) :
        k \in 0 .. MaxSemis, j \in 0 .. MaxTail}

\* A Kitty key report whose code point is 1114112, one past the last one.
KittyOverflow == <<27, 91, 49, 49, 49, 52, 49, 49, 50, 117>>

\* Unterminated strings: OSC, DCS and a paste without its end marker.
OpenStrings ==
    {<<27, 93, 53, 50, 59, 99>>, <<27, 80, 120>>,
     <<27, 91, 50, 48, 48, 126, 120>>}

\* Complete DCS sequences: ESC P, the payload q, then BEL or ST (ESC \).
DcsSeqs == {<<27, 80, 113, 7>>, <<27, 80, 113, 27, 92>>}

FirstParts ==
    Strings(NoiseBytes, MaxNoiseLen) \cup BrokenSeqs \cup CsiNoise
        \cup OpenStrings \cup {KittyOverflow} \cup DcsSeqs

\* Long noise: an opening sequence, then a pattern repeated up to
\* MaxNoiseBytes bytes: the content of a paste that never ends, CSI
\* intermediates, CSI intermediates and digits in turn, ESC bytes inside an
\* OSC string, and the content of a DCS string.
MaxNoiseBytes == 10240
NoiseBlock == 1024

NoiseKinds ==
    {<<(<<27, 91, 50, 48, 48, 126>>), <<120>>>>,
     <<(<<27, 91, 50, 48, 48, 126>>), <<27, 91>>>>,
     <<(<<27, 91>>), <<33>>>>,
     <<(<<27, 91>>), <<33, 49>>>>,
     <<(<<27, 93>>), <<27>>>>,
     <<(<<27, 80>>), <<120>>>>}

NoiseInputs ==
    {k[1] \o [i \in 1 .. MaxNoiseBytes |-> k[2][((i - 1) % Len(k[2])) + 1]] :
        k \in NoiseKinds}

\* The decoder options and the terminal the process runs in.
DecoderConfigs ==
    {<<FALSE, TRUE, "unknown">>, <<TRUE, TRUE, "iterm">>,
     <<TRUE, FALSE, "kitty">>}

----------------------------------------------------------------------------
(* The decoder's public operations as actions.                             *)

DecInit ==
    /\ \E c \in DecoderConfigs : dec = NewDecoder(c[1], c[2], c[3])
    /\ \E m \in FirstParts, v \in ValidSeqs \cup {<<97>>, <<>>} :
          /\ input = m \o v
          /\ split = Len(m)
    /\ fed = 0
    /\ produced = <<>>
    /\ threw = FALSE
    /\ reports = <<>>

\* decoder.feed(chunk) with the next n bytes the terminal sent.
Feed ==
    \E n \in 1 .. MaxChunk :
        /\ fed + n <= Len(input)
        /\ \E d \in {feed(dec, input, fed + 1, fed + n)} :
               /\ dec' = [d EXCEPT !.threw = FALSE]
               /\ threw' = d.threw
               /\ produced' = produced \o SubSeq(d.events, Len(dec.events) + 1,
                                                 Len(d.events))
        /\ fed' = fed + n
        /\ UNCHANGED <<input, split, reports, notDec>>

\* A decoder about to be fed long noise.
NoiseInit ==
    /\ \E c \in DecoderConfigs : dec = NewDecoder(c[1], c[2], c[3])
    /\ input \in NoiseInputs
    /\ split = Len(input)
    /\ fed = 0
    /\ produced = <<>>
    /\ threw = FALSE
    /\ reports = <<>>

\* decoder.feed(chunk) with the next block of bytes read from stdin.
FeedBlock ==
    \E n \in {IF Len(input) - fed < NoiseBlock THEN Len(input) - fed
              ELSE NoiseBlock} :
        /\ n > 0
        /\ \E d \in {feed(dec, input, fed + 1, fed + n)} :
               /\ dec' = [d EXCEPT !.threw = FALSE]
               /\ threw' = d.threw
               /\ produced' = produced \o SubSeq(d.events, Len(dec.events) + 1,
                                                 Len(d.events))
        /\ fed' = fed + n
        /\ UNCHANGED <<input, split, reports, notDec>>

\* decoder.next() with an event queued.
NextEvent ==
    /\ dec.events # <<>>
    /\ dec' = [dec EXCEPT !.events = Tail(@)]
    /\ UNCHANGED <<input, split, fed, produced, threw, reports, notDec>>

\* decoder.clear() with events queued.
ClearEvents ==
    /\ dec.events # <<>>
    /\ dec' = [dec EXCEPT !.events = <<>>]
    /\ UNCHANGED <<input, split, fed, produced, threw, reports, notDec>>

----------------------------------------------------------------------------
(* Whole sequences as the terminal sends them for a key, a paste, a mouse  *)
(* report or a focus change, each passed to one feed() call.               *)

\* The decimal digits of n as character codes.
RECURSIVE Digits(_)
Digits(n) ==
    IF n < 10 THEN <<48 + n>> ELSE Digits(n \div 10) \o <<48 + (n % 10)>>

\* ESC [ code ; mods : type u, the Kitty report of a key.
KittySeq(k) ==
    <<27, 91>> \o Digits(k.code) \o <<59>> \o Digits(k.mods) \o <<58>>
        \o Digits(k.type) \o <<117>>

\* ESC [ < v ; x ; y final, the SGR report of a mouse event.
SgrSeq(r) ==
    <<27, 91, 60>> \o Digits(r.v) \o <<59>> \o Digits(r.x) \o <<59>>
        \o Digits(r.y) \o <<r.final>>

PASTE_START == <<27, 91, 50, 48, 48, 126>>

\* What is pasted: nothing, text, bytes that are a key, a control
\* character, a mouse report, a UTF-8 character, a cut end marker and a
\* second start marker.
PasteContents ==
    {<<>>, <<104, 105>>, <<27, 91, 65>>, <<3>>, <<195, 169>>,
     <<27, 91, 60, 48, 59, 49, 59, 49, 77>>, <<27, 91, 50, 48, 49>>,
     <<27, 91, 50, 48, 48, 126, 120>>}

\* The pastes cut after k bytes, for every k up to the whole paste.
PastePrefixes(c) ==
    {SubSeq(c \o PASTE_END, 1, k) : k \in 0 .. Len(c) + 6}

\* A paste with its end marker, and every paste still open.
PasteInputs ==
    {PASTE_START \o p : p \in UNION {PastePrefixes(c) : c \in PasteContents}}

\* A printable byte and the Kitty report of its key: a, A (a with shift),
\* space, ~ with ctrl; pressed, repeated, released.
KittyPrintable ==
    {[byte |-> 97, code |-> 97, mods |-> 1, type |-> t] : t \in 1 .. 3}
        \cup {[byte |-> 65, code |-> 97, mods |-> 2, type |-> t] : t \in 1 .. 3}
        \cup {[byte |-> 32, code |-> 32, mods |-> 1, type |-> t] : t \in 1 .. 3}
        \cup {[byte |-> 126, code |-> 126, mods |-> 5, type |-> t] :
                 t \in 1 .. 3}

PrintableInputs == {<<k.byte>> \o KittySeq(k) : k \in KittyPrintable}

\* Keys as a terminal without the Kitty protocol sends them: a, Ctrl+C,
\* Alt+a, Up, Shift+Up, Ctrl+Right, PageUp, Shift+PageUp, Shift+F1, F1.
LegacyInputs ==
    {<<97>>, <<3>>, <<27, 97>>, <<27, 91, 65>>, <<27, 91, 49, 59, 50, 65>>,
     <<27, 91, 49, 59, 53, 67>>, <<27, 91, 53, 126>>,
     <<27, 91, 53, 59, 50, 126>>, <<27, 91, 49, 59, 50, 80>>, <<27, 79, 80>>}

\* One character in UTF-8 and its Unicode scalar: e acute (U+00E9), the
\* euro sign (U+20AC), a smiley (U+1F600).
Utf8Chars ==
    {[bytes |-> <<195, 169>>, scalar |-> 233],
     [bytes |-> <<226, 130, 172>>, scalar |-> 8364],
     [bytes |-> <<240, 159, 152, 128>>, scalar |-> 128512]}

Utf8Inputs == {c.bytes : c \in Utf8Chars}

\* SGR reports: the buttons, button value 3, motion with and without a
\* button, the wheel, the wheel with shift, alt, ctrl; press and release.
SgrReports ==
    {[v |-> v, x |-> 3, y |-> 2, final |-> f] :
        v \in {0, 1, 2, 3, 32, 34, 35, 64, 65, 66, 67, 68, 73, 82, 95},
        f \in {77, 109}}

SgrInputs == {SgrSeq(r) : r \in SgrReports}

\* The reports that follow a first one: buttons and motion.
SgrFollow == {SgrSeq(r) : r \in {q \in SgrReports : q.v \in {0, 3, 32, 35}}}

\* X10 reports: ESC [ M and three bytes, each 32 more than its value.
X10Inputs ==
    {<<27, 91, 77, 32, 33, 34>>, <<27, 91, 77, 35, 40, 50>>,
     <<27, 91, 77, 96, 97, 98>>}

FocusIn == <<27, 91, 73>>
FocusOut == <<27, 91, 79>>

\* Kitty reports of modifier keys (left shift, left control), of a and of
\* Escape, with no modifier, shift or ctrl in the mask.
KittyKeys ==
    {[code |-> c, mods |-> m, type |-> t] :
        c \in {57441, 57443, 97, 27}, m \in {1, 2, 5}, t \in {1, 3}}

KittyInputs ==
    {KittySeq(k) : k \in KittyKeys}
        \cup {<<27, 91, 57, 55, 117>>, <<27, 91, 57, 55, 59, 50, 117>>}

\* The reports that follow a first one: the modifier keys pressed and
\* released, and a with shift or ctrl in the mask.
KittyFollow ==
    {KittySeq(k) : k \in {q \in KittyKeys :
                            \/ q.code \in {57441, 57443} /\ q.mods = 1
                            \/ q.code = 97 /\ q.mods # 1 /\ q.type = 1}}

\* The control bytes 0x01 .. 0x1A, each sent alone.
ControlInputs == {<<b>> : b \in 1 .. 26}

SeqInputs ==
    PasteInputs \cup PrintableInputs \cup LegacyInputs \cup Utf8Inputs
        \cup SgrInputs \cup X10Inputs \cup {FocusIn, FocusOut}
        \cup KittyInputs \cup ControlInputs

MaxReports == 3

\* The decoder options and the terminal the process runs in.
SeqConfigs ==
    {<<FALSE, TRUE, "unknown">>, <<FALSE, FALSE, "unknown">>,
     <<TRUE, TRUE, "unknown">>, <<TRUE, FALSE, "unknown">>,
     <<TRUE, TRUE, "kitty">>, <<TRUE, FALSE, "kitty">>,
     <<TRUE, TRUE, "ghostty">>, <<TRUE, TRUE, "iterm">>}

AllIn(seqs, set) == \A i \in 1 .. Len(seqs) : seqs[i] \in set

\* A new decoder that has been fed nothing.
SeqInit ==
    /\ \E c \in SeqConfigs : dec = NewDecoder(c[1], c[2], c[3])
    /\ input = <<>>
    /\ split = 0
    /\ fed = 0
    /\ produced = <<>>
    /\ threw = FALSE
    /\ reports = <<>>

\* decoder.feed(s) with a whole sequence s.  Any sequence comes first; a
\* mouse report can follow mouse reports and a Kitty report Kitty reports.
FeedSequence ==
    \E s \in SeqInputs :
        /\ Len(reports) < MaxReports
        /\ \/ reports = <<>>
           \/ s \in SgrFollow /\ AllIn(reports, SgrInputs)
           \/ s \in KittyFollow /\ AllIn(reports, KittyInputs)
        /\ \E d \in {feed(dec, s, 1, Len(s))} :
               /\ dec' = [d EXCEPT !.threw = FALSE]
               /\ threw' = d.threw
               /\ produced' = produced \o SubSeq(d.events, Len(dec.events) + 1,
                                                 Len(d.events))
        /\ input' = input \o s
        /\ split' = Len(input)
        /\ fed' = Len(input) + Len(s)
        /\ reports' = Append(reports, s)
        /\ UNCHANGED notDec

----------------------------------------------------------------------------
(* The stdin reader (src/src/input/reader.ts).  reader.read() follows the  *)
(* Streams standard: a read request takes a queued chunk at once when no   *)
(* request is pending, otherwise it waits its turn, and an arriving chunk  *)
(* fulfils the oldest pending request whether or not anyone still awaits   *)
(* it.  The application makes one call at a time.                          *)

MaxSent == 3
MaxReads == 2

\* The chunks the terminal sends.
ChunkInputs == {<<97>>, <<98>>, <<27, 91>>, <<65>>}

\* dec.feed(new Uint8Array(value)) by the reader.
ReaderFeed(d, chunk) == [feed(d, chunk, 1, Len(chunk)) EXCEPT !.threw = FALSE]

ReaderStart ==
    /\ stdinQueue = <<>>
    /\ readRequests = <<>>
    /\ caller = "idle"
    /\ sentBytes = <<>>
    /\ fedBytes = <<>>
    /\ delivered = <<>>
    /\ result = "none"

\* The call `who` has received a chunk from reader.read(): the rest of
\* pollEvent (118-123), of tryReadEvent (150-155) or of one turn of
\* readEvent's loop (82-90).
Received(who, chunk) ==
    \E d \in {ReaderFeed(dec, chunk)} :
        /\ fedBytes' = fedBytes \o chunk
        /\ IF who = "poll"
           THEN /\ dec' = d
                /\ result' = IF d.events # <<>> THEN "true" ELSE "false"
                /\ caller' = "idle"
                /\ UNCHANGED delivered
           ELSE IF d.events # <<>>
           THEN /\ dec' = [d EXCEPT !.events = Tail(@)]
                /\ delivered' = Append(delivered, Head(d.events))
                /\ result' = "event"
                /\ caller' = "idle"
           ELSE IF who = "tryRead"
           THEN /\ dec' = d
                /\ result' = "null"
                /\ caller' = "idle"
                /\ UNCHANGED delivered
           ELSE /\ dec' = d
                /\ caller' = "readLoop"
                /\ UNCHANGED <<delivered, result>>

\* The call `who` has received { done: true } from reader.read(): readEvent
\* throws 'stdin closed' (76-78), pollEvent skips the feed and returns
\* false (118, 131), tryReadEvent returns null with it (155).
ReceivedDone(who) ==
    /\ result' = IF who = "poll" THEN "false"
                 ELSE IF who = "tryRead" THEN "null" ELSE "threw"
    /\ caller' = "idle"
    /\ UNCHANGED <<dec, fedBytes, delivered>>

\* reader.read() by the call `who`: a queued chunk is taken at once, on a
\* source that has ended the read is done, otherwise the request is left
\* pending and the call waits.
IssueRead(who) ==
    IF readRequests = <<>> /\ stdinQueue # <<>>
    THEN /\ stdinQueue' = Tail(stdinQueue)
         /\ Received(who, Head(stdinQueue))
         /\ UNCHANGED <<readRequests, sentBytes>>
    ELSE IF stdinEnded
    THEN /\ ReceivedDone(who)
         /\ UNCHANGED <<stdinQueue, readRequests, sentBytes>>
    ELSE /\ Len(readRequests) < MaxReads
         /\ readRequests' = Append(readRequests, "live")
         /\ caller' = who
         /\ UNCHANGED <<dec, stdinQueue, sentBytes, fedBytes, delivered,
                        result>>

\* An event is already queued: dec.next() returns it.
TakeQueued ==
    /\ dec' = [dec EXCEPT !.events = Tail(@)]
    /\ delivered' = Append(delivered, Head(dec.events))
    /\ result' = "event"
    /\ UNCHANGED <<stdinQueue, readRequests, caller, sentBytes, fedBytes>>

\* The terminal sends a chunk.  The oldest pending read request takes it,
\* awaited or not; with none pending the stream queues it.
ChunkArrives ==
    \E chunk \in ChunkInputs :
        /\ Len(sentBytes) + Len(chunk) <= MaxSent
        /\ sentBytes' = sentBytes \o chunk
        /\ IF readRequests = <<>>
           THEN /\ stdinQueue' = Append(stdinQueue, chunk)
                /\ UNCHANGED <<dec, readRequests, caller, fedBytes, delivered,
                               result>>
           ELSE IF Head(readRequests) = "abandoned"
           THEN /\ readRequests' = Tail(readRequests)
                /\ UNCHANGED <<dec, stdinQueue, caller, fedBytes, delivered,
                               result>>
           ELSE /\ readRequests' = Tail(readRequests)
                /\ Received(caller, chunk)
                /\ UNCHANGED stdinQueue
        /\ UNCHANGED notReader

\* readEvent() up to its first await.
ReadEvent ==
    /\ caller = "idle"
    /\ IF dec.events # <<>> THEN TakeQueued ELSE IssueRead("read")
    /\ UNCHANGED notReader

\* readEvent()'s loop comes round to reader.read() again.
ReadAgain ==
    /\ caller = "readLoop"
    /\ IssueRead("read")
    /\ UNCHANGED notReader

\* pollEvent(timeout) up to its await of the race.
PollEvent ==
    /\ caller = "idle"
    /\ IF dec.events # <<>>
       THEN /\ result' = "true"
            /\ UNCHANGED <<dec, stdinQueue, readRequests, caller, sentBytes,
                           fedBytes, delivered>>
       ELSE IssueRead("poll")
    /\ UNCHANGED notReader

\* tryReadEvent() up to the await inside its pollEvent(1).
TryReadEvent ==
    /\ caller = "idle"
    /\ IF dec.events # <<>> THEN TakeQueued ELSE IssueRead("tryRead")
    /\ UNCHANGED notReader

\* The timer of pollEvent's race fires first: the call returns false (null
\* from tryReadEvent) and its read request stays pending in the stream.
PollTimeout ==
    /\ caller \in {"poll", "tryRead"}
    /\ readRequests # <<>>
    /\ readRequests[Len(readRequests)] = "live"
    /\ readRequests' = [readRequests EXCEPT ![Len(readRequests)] = "abandoned"]
    /\ result' = IF caller = "poll" THEN "false" ELSE "null"
    /\ caller' = "idle"
    /\ UNCHANGED <<dec, stdinQueue, sentBytes, fedBytes, delivered, notReader>>

----------------------------------------------------------------------------
(* The event stream (src/src/input/stream.ts).  The constructor starts     *)
(* startReading(), which calls readEvent() in a loop and hands each event  *)
(* to the oldest resolver or queues it; the host iterates the stream with  *)
(* `for await`.  readTask is "loop" at the top of the while, "awaiting"    *)
(* inside readEvent(), "sleeping" in the 10 ms pause and "done" past the   *)
(* loop; host is "loop" at the top of the generator's while, "waiting" on  *)
(* the promise it pushed to resolvers and "ended" when the iteration is    *)
(* over.                                                                   *)

\* The byte source reports end of input: the pending read requests are
\* answered { done: true }, the one still awaited making its call return.
StdinEnds ==
    /\ ~stdinEnded
    /\ stdinEnded' = TRUE
    /\ readRequests' = <<>>
    /\ IF readRequests # <<>> /\ readRequests[Len(readRequests)] = "live"
       THEN ReceivedDone(caller)
       ELSE UNCHANGED <<dec, caller, fedBytes, delivered, result>>
    /\ UNCHANGED <<stdinQueue, sentBytes, queue, resolvers, closed, readTask,
                   host, diffVars, input, split, fed, produced, threw,
                   reports, ctlVars, inputVars>>

\* The terminal sends a chunk while its end is not reported.
StreamChunkArrives ==
    /\ ~stdinEnded
    /\ ChunkArrives

\* Lines 73-77 and 113-117: every waiting resolver is told { done: true },
\* which ends the host's iteration (99-101).
ResolvedDone == IF resolvers # <<>> THEN "ended" ELSE host

\* startReading() at the top of its loop (40-42): past the loop when the
\* stream is closed, otherwise into readEvent() up to its first await.
StartReading ==
    /\ readTask = "loop"
    /\ IF closed
       THEN /\ readTask' = "done"
            /\ host' = ResolvedDone
            /\ resolvers' = <<>>
            /\ UNCHANGED <<dec, readerVars>>
       ELSE /\ caller = "idle"
            /\ IF dec.events # <<>> THEN TakeQueued ELSE IssueRead("read")
            /\ readTask' = "awaiting"
            /\ UNCHANGED <<host, resolvers>>
    /\ UNCHANGED <<stdinEnded, queue, closed, diffVars, input, split, fed,
                   produced, threw, reports, ctlVars, inputVars>>

\* readEvent() has returned an event or thrown (44-70).  An event goes to
\* the oldest resolver, else to the queue; an error is dropped and the loop
\* pauses for 10 ms; on a closed stream the loop is left either way.
ReadEventSettles ==
    /\ readTask = "awaiting"
    /\ caller = "idle"
    /\ IF closed
       THEN /\ readTask' = "done"
            /\ host' = ResolvedDone
            /\ resolvers' = <<>>
            /\ UNCHANGED queue
       ELSE IF result = "threw"
       THEN /\ readTask' = "sleeping"
            /\ UNCHANGED <<host, resolvers, queue>>
       ELSE IF resolvers # <<>>
       THEN /\ readTask' = "loop"
            /\ resolvers' = Tail(resolvers)
            /\ host' = "loop"
            /\ UNCHANGED queue
       ELSE /\ readTask' = "loop"
            /\ queue' = Append(queue, delivered[Len(delivered)])
            /\ UNCHANGED <<host, resolvers>>
    /\ UNCHANGED <<stdinEnded, closed, diffVars, decVars, readerVars, ctlVars,
                   inputVars>>

\* The 10 ms timer of line 69 fires.
PauseOver ==
    /\ readTask = "sleeping"
    /\ readTask' = "loop"
    /\ UNCHANGED <<stdinEnded, queue, resolvers, closed, host, diffVars,
                   decVars, readerVars, ctlVars, inputVars>>

\* The generator at the top of its loop (84-97): over when the stream is
\* closed; a queued event is yielded and the host comes back for the next;
\* with none queued a resolver is pushed and the host waits.
HostNext ==
    /\ host = "loop"
    /\ IF closed
       THEN /\ host' = "ended"
            /\ UNCHANGED <<queue, resolvers>>
       ELSE IF queue # <<>>
       THEN /\ queue' = Tail(queue)
            /\ UNCHANGED <<host, resolvers>>
       ELSE /\ host' = "waiting"
            /\ resolvers' = Append(resolvers, "host")
            /\ UNCHANGED queue
    /\ UNCHANGED <<stdinEnded, closed, readTask, diffVars, decVars,
                   readerVars, ctlVars, inputVars>>

\* stream.close() (110-121), by the host's loop body or by another task.
CloseStream ==
    /\ ~closed
    /\ host # "ended"
    /\ closed' = TRUE
    /\ host' = ResolvedDone
    /\ resolvers' = <<>>
    /\ queue' = <<>>
    /\ UNCHANGED <<stdinEnded, readTask, diffVars, decVars, readerVars,
                   ctlVars, inputVars>>

\* createEventStream() has returned and the host has started iterating.
StreamInit ==
    /\ stdinEnded = FALSE
    /\ queue = <<>>
    /\ resolvers = <<>>
    /\ closed = FALSE
    /\ readTask = "loop"
    /\ host = "loop"

----------------------------------------------------------------------------
(* Terminal modes, reset and exit (src/src/input/enable.ts; Terminal.open, *)
(* close and setupSignalHandlers of terminal.ts; src/src/buffer.ts).       *)
(* Escape sequences carry the names they have in ESCAPE_SEQUENCES.  The    *)
(* operations act on w = [st, buf, log]: terminalState, the output buffer  *)
(* and what has reached the terminal.                                      *)

Signals == {"SIGINT", "SIGTERM"}

\* OutputBuffer.write: the high water mark (64 KiB) is out of reach of the
\* few short sequences held here, so nothing is flushed on the way.
write(w, data) == [w EXCEPT !.buf = Append(@, data)]

\* How many times the sequence occurs among the buffered ones.
Count(buf, seq) == Cardinality({i \in 1 .. Len(buf) : buf[i] = seq})

\* OutputBuffer.flush: the buffered sequences reach the terminal, which
\* pushes and pops its Kitty keyboard stack as they tell it.
flush(w) ==
    IF w.buf = <<>> THEN w
    ELSE [w EXCEPT !.log = @ \o w.buf, !.buf = <<>>,
                   !.stack = @ + Count(w.buf, "PUSH_KITTY_KEYBOARD")
                               - Count(w.buf, "POP_KITTY_KEYBOARD")]

WriteIf(cond, w, data) == IF cond THEN write(w, data) ELSE w

showCursor(w) == write(w, "ESC_SHOW_CURSOR")

hideCursor(w) == write(w, "ESC_HIDE_CURSOR")

\* disableMouse that forgets to clear its flags.
disableMouse_FlagKept(w) ==
    IF ~w.st.mouseTracking THEN w
    ELSE flush(WriteIf(w.st.mouseProtocol = "sgr",
                       write(write(write(w, "DISABLE_MOUSE_ALL"),
                                   "DISABLE_MOUSE_BUTTONS"),
                             "DISABLE_MOUSE_TRACKING"),
                       "DISABLE_SGR_MOUSE"))

disableMouse(w) ==
    IF ~w.st.mouseTracking THEN w
    ELSE [flush(WriteIf(w.st.mouseProtocol = "sgr",
                        write(write(write(w, "DISABLE_MOUSE_ALL"),
                                    "DISABLE_MOUSE_BUTTONS"),
                              "DISABLE_MOUSE_TRACKING"),
                        "DISABLE_SGR_MOUSE"))
            EXCEPT !.st.mouseTracking = FALSE,
                   !.st.mouseProtocol = "undefined"]

\* enableMouse once any tracking in force has been disabled.
EnableMouseOn(w, protocol, allMotion) ==
    [flush(WriteIf(protocol = "sgr",
                   WriteIf(allMotion,
                           write(write(w, "ENABLE_MOUSE_TRACKING"),
                                 "ENABLE_MOUSE_BUTTONS"),
                           "ENABLE_MOUSE_ALL"),
                   "ENABLE_SGR_MOUSE"))
        EXCEPT !.st.mouseTracking = TRUE,
               !.st.mouseProtocol = protocol]

enableMouse(w, protocol, allMotion) ==
    EnableMouseOn(IF w.st.mouseTracking THEN disableMouse(w) ELSE w,
                  protocol, allMotion)

pushKittyKeyboard(w) ==
    [flush(write(w, "PUSH_KITTY_KEYBOARD")) EXCEPT !.st.kittyKeyboard = TRUE]

popKittyKeyboard(w) ==
    IF ~w.st.kittyKeyboard THEN w
    ELSE [flush(write(w, "POP_KITTY_KEYBOARD"))
            EXCEPT !.st.kittyKeyboard = FALSE]

enableBracketedPaste(w) ==
    IF w.st.bracketedPaste THEN w
    ELSE [flush(write(w, "ENABLE_BRACKETED_PASTE"))
            EXCEPT !.st.bracketedPaste = TRUE]

disableBracketedPaste(w) ==
    IF ~w.st.bracketedPaste THEN w
    ELSE [flush(write(w, "DISABLE_BRACKETED_PASTE"))
            EXCEPT !.st.bracketedPaste = FALSE]

enableFocusEvents(w) ==
    IF w.st.focusEvents THEN w
    ELSE [flush(write(w, "ENABLE_FOCUS_EVENTS"))
            EXCEPT !.st.focusEvents = TRUE]

disableFocusEvents(w) ==
    IF ~w.st.focusEvents THEN w
    ELSE [flush(write(w, "DISABLE_FOCUS_EVENTS"))
            EXCEPT !.st.focusEvents = FALSE]

InputFeatures ==
    {"mouseTracking", "kittyKeyboard", "bracketedPaste", "focusEvents",
     "clipboard"}

\* resetTerminal up to its await of disableRawMode (lines 494-504).
ResetSync(w) ==
    [disableMouse(popKittyKeyboard(disableBracketedPaste(
        disableFocusEvents(w))))
        EXCEPT !.st.enabledFeatures = {},
               !.st.supportedFeatures = [f \in InputFeatures |-> "undefined"]]

\* resetTerminal after disableRawMode has returned (lines 507-508).
ResetFinish(w) == flush(showCursor(w))

\* Terminal.close up to the removal of its handlers: the cursor is shown
\* and the buffer flushed.
close(w) == flush(showCursor(w))

NoTask == [fn |-> "none", owner |-> "none"]

NoSignal == [sig |-> "none", st |-> <<>>, installed |-> FALSE]

\* The operation starts from the current state with nothing sent yet.
World ==
    [st |-> termState, buf |-> outBuffer, log |-> <<>>, stack |-> kittyStack]

\* The operation goes on from where it was.
WorldOn ==
    [st |-> termState, buf |-> outBuffer, log |-> opLog, stack |-> kittyStack]

Store(w) ==
    /\ termState' = w.st
    /\ outBuffer' = w.buf
    /\ opLog' = w.log
    /\ kittyStack' = w.stack

Installed == \E i \in 1 .. Len(listeners["SIGINT"]) :
                 listeners["SIGINT"][i] = "resetHandler"

\* The application makes one call at a time and waits for its async calls.
AppRuns == proc = "running" /\ task = NoTask /\ waiting = <<>>

\* No initializeInput call: nothing configured, nothing returned.
NoInit ==
    [config |-> [features |-> <<>>,
                 capabilities |->
                     [terminalType |-> "unknown",
                      features |-> [f \in InputFeatures |-> "none"]],
                 overrides |-> {}],
     phase |-> "never", errors |-> <<>>, status |-> <<>>]

MaxBuffered == 1

\* The state Terminal.open leaves: raw mode set when the runtime offers
\* setRawMode, Terminal's cleanupHandler registered for both signals.
CtlInit ==
    /\ termState = [rawMode |-> FALSE, mouseTracking |-> FALSE,
                    mouseProtocol |-> "undefined", kittyKeyboard |-> FALSE,
                    bracketedPaste |-> FALSE, focusEvents |-> FALSE,
                    enabledFeatures |-> {},
                    supportedFeatures |->
                        [f \in InputFeatures |-> "undefined"]]
    /\ isRawMode \in BOOLEAN
    /\ listeners = [s \in Signals |-> <<"cleanupHandler">>]
    /\ outBuffer = <<>>
    /\ proc = "running"
    /\ task = NoTask
    /\ atSignal = NoSignal
    /\ opLog = <<>>
    /\ kittyStack = 0
    /\ resetEnded = "none"
    /\ init = NoInit
    /\ waiting = <<>>

\* A synchronous call by the application that changes w only.
AppCall(w) ==
    /\ Store(w)
    /\ resetEnded' = "none"
    /\ UNCHANGED <<isRawMode, listeners, proc, task, atSignal, notCtl>>

EnableMouse ==
    /\ AppRuns
    /\ \E protocol \in {"x10", "sgr"}, allMotion \in BOOLEAN :
           AppCall(enableMouse(World, protocol, allMotion))

DisableMouse ==
    /\ AppRuns
    /\ AppCall(disableMouse(World))

\* How deep the terminal's Kitty keyboard stack is let to grow.
MaxKittyStack == 2

PushKittyKeyboard ==
    /\ AppRuns
    /\ kittyStack < MaxKittyStack
    /\ AppCall(pushKittyKeyboard(World))

PopKittyKeyboard ==
    /\ AppRuns
    /\ AppCall(popKittyKeyboard(World))

EnableBracketedPaste ==
    /\ AppRuns
    /\ AppCall(enableBracketedPaste(World))

DisableBracketedPaste ==
    /\ AppRuns
    /\ AppCall(disableBracketedPaste(World))

EnableFocusEvents ==
    /\ AppRuns
    /\ AppCall(enableFocusEvents(World))

DisableFocusEvents ==
    /\ AppRuns
    /\ AppCall(disableFocusEvents(World))

\* term.hideCursor(): written, not flushed.
HideCursor ==
    /\ AppRuns
    /\ Len(outBuffer) < MaxBuffered
    /\ AppCall(hideCursor(World))

\* term.flush().
Flush ==
    /\ AppRuns
    /\ AppCall(flush(World))

\* enableRawMode up to its await of the stty child.
EnableRawMode ==
    /\ AppRuns
    /\ task' = IF termState.rawMode THEN NoTask
               ELSE [fn |-> "enableRawMode", owner |-> "app"]
    /\ opLog' = <<>>
    /\ UNCHANGED kittyStack
    /\ resetEnded' = "none"
    /\ UNCHANGED <<termState, isRawMode, listeners, outBuffer, proc, atSignal,
                   notCtl>>

\* installCleanupHandlers, called once.
InstallCleanupHandlers ==
    /\ AppRuns
    /\ ~Installed
    /\ listeners' = [s \in Signals |-> Append(listeners[s], "resetHandler")]
    /\ opLog' = <<>>
    /\ UNCHANGED kittyStack
    /\ resetEnded' = "none"
    /\ UNCHANGED <<termState, isRawMode, outBuffer, proc, task, atSignal,
                   notCtl>>

\* term.close() by the application.
Close ==
    /\ AppRuns
    /\ Store(close(World))
    /\ isRawMode' = FALSE
    /\ listeners' = [s \in Signals |->
                        SelectSeq(listeners[s],
                                  LAMBDA h : h # "cleanupHandler")]
    /\ resetEnded' = "none"
    /\ UNCHANGED <<proc, task, atSignal, notCtl>>

\* resetTerminal by `owner` up to its first await, on the state w: with
\* raw mode off disableRawMode returns at once and the reset runs to its
\* end, otherwise it waits for stty.  A handler exits the process when its
\* reset has returned.
ResetStart(owner, w) ==
    IF w.st.rawMode
    THEN /\ Store(w)
         /\ task' = [fn |-> "resetTerminal", owner |-> owner]
         /\ resetEnded' = "none"
         /\ UNCHANGED proc
    ELSE /\ Store(ResetFinish(w))
         /\ task' = NoTask
         /\ resetEnded' = "returned"
         /\ proc' = IF owner = "app" THEN proc ELSE "exited"

\* resetTerminal(term) by the application.
ResetTerminal ==
    /\ AppRuns
    /\ ResetStart("app", ResetSync(World))
    /\ UNCHANGED <<isRawMode, listeners, atSignal, notCtl>>

\* The stty child exits with `code` and the call that awaited it goes on.
\* enableRawMode and disableRawMode throw on a nonzero code.  A reset that
\* throws in a handler rejects the handler's promise, and the
\* unhandledRejection handler starts resetTerminal again.
SttyExits ==
    \E code \in {0, 1} :
        /\ proc = "running"
        /\ task # NoTask
        /\ task.fn # "initializeInput"
        /\ IF task.fn = "enableRawMode"
           THEN /\ termState' = [termState EXCEPT
                                   !.rawMode = IF code = 0 THEN TRUE ELSE @]
                /\ task' = NoTask
                /\ UNCHANGED <<outBuffer, opLog, kittyStack, resetEnded, proc>>
           ELSE IF code = 0
           THEN /\ Store(ResetFinish([WorldOn EXCEPT !.st.rawMode = FALSE]))
                /\ task' = NoTask
                /\ resetEnded' = "returned"
                /\ proc' = IF task.owner = "app" THEN proc ELSE "exited"
           ELSE IF task.owner = "app"
           THEN /\ task' = NoTask
                /\ resetEnded' = "threw"
                /\ UNCHANGED <<termState, outBuffer, opLog, kittyStack, proc>>
           ELSE /\ Store(ResetSync(WorldOn))
                /\ task' = [fn |-> "resetTerminal", owner |-> "rejection"]
                /\ resetEnded' = "threw"
                /\ UNCHANGED proc
        /\ UNCHANGED <<isRawMode, listeners, atSignal, notCtl>>

\* SIGINT or SIGTERM arrives and the listeners run in the order they were
\* registered.  Terminal's cleanupHandler closes the terminal and calls
\* process.exit(0), which ends the process before a later listener runs.
\* The handler of installCleanupHandlers runs resetTerminal and exits when
\* it has returned.  With no listener the signal kills the process.
Signal ==
    \E sig \in Signals :
        /\ proc = "running"
        /\ atSignal' = [sig |-> sig, st |-> termState, installed |-> Installed]
        /\ IF listeners[sig] = <<>>
           THEN /\ proc' = "killed"
                /\ opLog' = <<>>
                /\ UNCHANGED kittyStack
                /\ resetEnded' = "none"
                /\ UNCHANGED <<termState, isRawMode, listeners, outBuffer,
                               task>>
           ELSE IF Head(listeners[sig]) = "cleanupHandler"
           THEN /\ Store(close(World))
                /\ isRawMode' = FALSE
                /\ listeners' = [s \in Signals |->
                                    SelectSeq(listeners[s],
                                        LAMBDA h : h # "cleanupHandler")]
                /\ proc' = "exited"
                /\ resetEnded' = "none"
                /\ UNCHANGED task
           ELSE /\ task = NoTask
                /\ ResetStart("signal", ResetSync(World))
                /\ UNCHANGED <<isRawMode, listeners>>
        /\ UNCHANGED notCtl

\* How many resetTerminal calls may wait beside the first.
MaxWaiting == 2

\* SIGINT or SIGTERM arrives while a call awaits its stty child and the
\* handler of installCleanupHandlers is the first listener: it runs
\* resetTerminal beside the call under way.  With raw mode on its
\* disableRawMode starts a stty child of its own; otherwise the reset
\* returns and the handler exits the process.
SignalWhileAwaiting ==
    \E sig \in Signals :
        /\ proc = "running"
        /\ task # NoTask \/ waiting # <<>>
        /\ Len(waiting) < MaxWaiting
        /\ listeners[sig] # <<>>
        /\ Head(listeners[sig]) = "resetHandler"
        /\ atSignal' = [sig |-> sig, st |-> termState, installed |-> Installed]
        /\ IF ResetSync(WorldOn).st.rawMode
           THEN /\ Store(ResetSync(WorldOn))
                /\ waiting' = Append(waiting, "signal")
                /\ UNCHANGED <<proc, resetEnded>>
           ELSE /\ Store(ResetFinish(ResetSync(WorldOn)))
                /\ proc' = "exited"
                /\ resetEnded' = "returned"
                /\ UNCHANGED waiting
        /\ UNCHANGED <<isRawMode, listeners, task, init, diffVars, decVars,
                       readerVars, streamVars>>

\* The stty child of the i-th waiting reset exits with `code`.  On 0 the
\* reset returns and its handler exits the process; otherwise it throws,
\* the handler's promise is rejected and the unhandledRejection handler
\* runs resetTerminal once more.
WaitingSttyExits ==
    \E i \in 1 .. Len(waiting), code \in {0, 1} :
        /\ proc = "running"
        /\ IF code = 0
           THEN /\ Store(ResetFinish([WorldOn EXCEPT !.st.rawMode = FALSE]))
                /\ waiting' = [j \in 1 .. Len(waiting) - 1 |->
                                  IF j < i THEN waiting[j]
                                  ELSE waiting[j + 1]]
                /\ proc' = "exited"
                /\ resetEnded' = "returned"
           ELSE IF ResetSync(WorldOn).st.rawMode
           THEN /\ Store(ResetSync(WorldOn))
                /\ waiting' = [waiting EXCEPT ![i] = "rejection"]
                /\ resetEnded' = "threw"
                /\ UNCHANGED proc
           ELSE /\ Store(ResetFinish(ResetSync(WorldOn)))
                /\ waiting' = [j \in 1 .. Len(waiting) - 1 |->
                                  IF j < i THEN waiting[j]
                                  ELSE waiting[j + 1]]
                /\ proc' = "exited"
                /\ resetEnded' = "returned"
        /\ UNCHANGED <<isRawMode, listeners, task, atSignal, init, diffVars,
                       decVars, readerVars, streamVars>>

----------------------------------------------------------------------------
(* initializeInput (enable.ts) and isFeatureSupported (detection.ts).  A   *)
(* config is the host's InputConfig: `features` holds the entries of       *)
(* config.features in the order Object.entries yields them, `capabilities` *)
(* what was detected (or passed as detectedCapabilities), `overrides` the  *)
(* entries of config.overrides.  The options of a feature are its minLevel *)
(* only, so that enableFeature takes its defaults.                         *)

SupportLevel == {"full", "partial", "none"}

isFeatureSupported(capabilities, feature, minLevel) ==
    LET level == capabilities.features[feature]
    IN  IF minLevel = "none" THEN TRUE
        ELSE IF minLevel = "partial" THEN level \in {"partial", "full"}
        ELSE level = "full"

\* enableFeature with no protocol, allMotion or flags among the options:
\* SGR mouse reports with all motion.  The clipboard needs no enabling.
enableFeature(w, feature) ==
    CASE feature = "mouseTracking" -> enableMouse(w, "sgr", TRUE)
      [] feature = "kittyKeyboard" -> pushKittyKeyboard(w)
      [] feature = "bracketedPaste" -> enableBracketedPaste(w)
      [] feature = "focusEvents" -> enableFocusEvents(w)
      [] feature = "clipboard" -> w

\* The messages initializeInput collects or throws.
NotSupported(feature, terminalType) ==
    [text |-> "Required feature is not supported by terminal",
     feature |-> feature, terminalType |-> terminalType]

RawModeFailed ==
    [text |-> "Failed to enable raw mode", feature |-> "none",
     terminalType |-> "none"]

\* Lines 71-84: the detected levels are stored, then the overrides.
StoreSupported(st, capabilities, overrides) ==
    [st EXCEPT !.supportedFeatures =
        [f \in InputFeatures |->
            IF \E o \in overrides : o[1] = f
            THEN IF <<f, TRUE>> \in overrides THEN "full" ELSE "none"
            ELSE capabilities.features[f]]]

\* Lines 92-123: the loop over the configured features, from entry i on.
RECURSIVE processFeatures(_, _, _, _)
processFeatures(w, errors, config, i) ==
    IF i > Len(config.features) THEN [w |-> w, errors |-> errors]
    ELSE LET featureConfig == config.features[i]
             feature == featureConfig.feature
             minLevel == IF featureConfig.minLevel = "undefined"
                         THEN "partial" ELSE featureConfig.minLevel
         IN  IF ~featureConfig.enabled
             THEN processFeatures(w, errors, config, i + 1)
             ELSE IF ~isFeatureSupported(config.capabilities, feature, minLevel)
             THEN processFeatures(
                      w,
                      IF featureConfig.required
                      THEN Append(errors,
                                  NotSupported(feature,
                                      config.capabilities.terminalType))
                      ELSE errors,
                      config, i + 1)
             ELSE processFeatures(
                      [enableFeature(w, feature)
                          EXCEPT !.st.enabledFeatures = @ \cup {feature}],
                      errors, config, i + 1)

\* initializeInput once enableRawMode has returned (lines 89-141): the
\* features are processed; with an error collected it throws, otherwise the
\* shared decoder is replaced (configureDecoder, reader.ts 48-57) and the
\* status is returned.
InitializeRest(w) ==
    LET r == processFeatures(w, <<>>, init.config, 1)
    IN  /\ Store(r.w)
        /\ init' = [init EXCEPT
                       !.phase = IF r.errors = <<>> THEN "returned"
                                 ELSE "threw",
                       !.errors = r.errors,
                       !.status = IF r.errors = <<>> THEN <<r.w.st>>
                                  ELSE <<>>]
        /\ dec' = IF r.errors = <<>>
                  THEN NewDecoder("kittyKeyboard" \in r.w.st.enabledFeatures,
                                  TRUE, dec.termType)
                  ELSE dec
        /\ task' = NoTask

\* initializeInput(term, config) up to its await of the stty child; with raw
\* mode already on enableRawMode returns at once.
InitializeInput ==
    /\ AppRuns
    /\ init.phase = "none"
    /\ LET w == [World EXCEPT
                    !.st = StoreSupported(termState, init.config.capabilities,
                                          init.config.overrides)]
       IN  IF termState.rawMode
           THEN InitializeRest(w)
           ELSE /\ Store(w)
                /\ init' = [init EXCEPT !.phase = "rawMode"]
                /\ task' = [fn |-> "initializeInput", owner |-> "app"]
                /\ UNCHANGED dec
    /\ resetEnded' = "none"
    /\ UNCHANGED <<isRawMode, listeners, proc, atSignal, waiting, diffVars,
                   input, split, fed, produced, threw, reports, readerVars,
                   streamVars>>

\* The stty child of initializeInput's enableRawMode exits with `code`:
\* enableRawMode throws on a nonzero code and initializeInput with it.
InitializeInputResumes ==
    \E code \in {0, 1} :
        /\ proc = "running"
        /\ task # NoTask
        /\ task.fn = "initializeInput"
        /\ IF code = 0
           THEN InitializeRest([WorldOn EXCEPT !.st.rawMode = TRUE])
           ELSE /\ init' = [init EXCEPT !.phase = "threw",
                                        !.errors = <<RawModeFailed>>]
                /\ task' = NoTask
                /\ UNCHANGED <<termState, outBuffer, opLog, kittyStack, dec>>
        /\ UNCHANGED <<isRawMode, listeners, proc, atSignal, resetEnded,
                       waiting, diffVars, input, split, fed, produced, threw,
                       reports, readerVars, streamVars>>

\* The legacy InputOptions: the flags of configureInput's old form.
InputOptions ==
    [mouse : BOOLEAN, kittyKeyboard : BOOLEAN, bracketedPaste : BOOLEAN,
     focusEvents : BOOLEAN]

\* An entry that configureInput builds: enabled, not required, no minLevel.
LegacyEntry(feature) ==
    [feature |-> feature, enabled |-> TRUE, required |-> FALSE,
     minLevel |-> "undefined"]

\* configureInput lines 449-480: the features of the InputConfig built
\* from the legacy options, in the order they are assigned.
LegacyFeatures(options) ==
    (IF options.mouse THEN <<LegacyEntry("mouseTracking")>> ELSE <<>>)
        \o (IF options.kittyKeyboard
            THEN <<LegacyEntry("kittyKeyboard")>> ELSE <<>>)
        \o (IF options.bracketedPaste
            THEN <<LegacyEntry("bracketedPaste")>> ELSE <<>>)
        \o (IF options.focusEvents
            THEN <<LegacyEntry("focusEvents")>> ELSE <<>>)

\* configureInput(term, options) with legacy options: the options are
\* converted and initializeInput is awaited on the result.  (With an
\* InputConfig it is initializeInput itself.)
ConfigureInput ==
    /\ \E options \in InputOptions :
           /\ init.config.features = LegacyFeatures(options)
           /\ init.config.overrides = {}
    /\ InitializeInput

----------------------------------------------------------------------------
(* Idle values: a component that a specification does not exercise.        *)

DiffIdle ==
    /\ rows = 1 /\ cols = 1
    /\ prev = EmptyBuffer(1) /\ curr = EmptyBuffer(1)
    /\ dirty = [r \in 0 .. 0 |-> 0]
    /\ output = <<>>
    /\ screen = ShownBuffer(EmptyBuffer(1))
    /\ termSgr = AnsiDefault
    /\ streak = 0
    /\ call = NoCall

DecIdle ==
    /\ dec = NewDecoder(FALSE, TRUE, "unknown")
    /\ input = <<>> /\ split = 0 /\ fed = 0
    /\ produced = <<>> /\ threw = FALSE /\ reports = <<>>

StreamIdle ==
    /\ stdinEnded = FALSE
    /\ queue = <<>>
    /\ resolvers = <<>>
    /\ closed = FALSE
    /\ readTask = "none"
    /\ host = "none"

ReaderIdle == ReaderStart /\ StreamIdle

CtlIdle ==
    /\ CtlInit
    /\ isRawMode = FALSE

----------------------------------------------------------------------------
(* The specifications.                                                     *)

InitDiff == DiffInit /\ DecIdle /\ ReaderIdle /\ CtlIdle

NextDiff ==
    \/ SetCell
    \/ SetCellWithAttrs
    \/ Clear
    \/ MarkDirty
    \/ MarkAllDirty
    \/ Resize
    \/ ComputeDiff

SpecDiff == InitDiff /\ [][NextDiff]_vars

\* A Terminal whose cells are set, that is rendered and whose screen is
\* cleared.
InitScreen == InitDiff

NextScreen == SetCell \/ ClearScreen \/ Render

SpecScreen == InitScreen /\ [][NextScreen]_vars

----------------------------------------------------------------------------
(* The cell codec called directly.                                         *)

\* The palette has 256 entries.
PaletteSize == 256

PaletteInputs == {Pal(p) : p \in 0 .. PaletteSize - 1}

\* Black, white, red, green, blue, mid grey.
RgbInputs ==
    {Rgb(0), Rgb(16777215), Rgb(16711680), Rgb(65280), Rgb(255), Rgb(8421504)}

ColorInputs == {NoColor} \cup PaletteInputs \cup RgbInputs

\* The colours every other colour is paired with.
PairedWith == {NoColor, Pal(0), Pal(255), Rgb(0), Rgb(16777215), Rgb(16711680)}

ColorPairs == (ColorInputs \X PairedWith) \cup (PairedWith \X ColorInputs)

\* A host about to call packCell(ch, attr, fg, bg) with arguments it chose.
CodecInit ==
    /\ rows = 1 /\ cols = 1
    /\ prev = EmptyBuffer(1) /\ curr = EmptyBuffer(1)
    /\ dirty = [r \in 0 .. 0 |-> 0]
    /\ output = <<>>
    /\ screen = ShownBuffer(EmptyBuffer(1))
    /\ termSgr = AnsiDefault
    /\ streak = 0
    /\ \E ch \in CharInputs, attr \in {0, 255}, p \in ColorPairs :
           call = Call("none", attr, 0, ch,
                       [NoAttrs EXCEPT !.fg = p[1], !.bg = p[2]], emptyCell, 0)

\* packCell(ch, attr, fg, bg): the cell it returns is recorded.
PackCell ==
    /\ call.op = "none"
    /\ call' = [call EXCEPT
                   !.op = "packCell",
                   !.cell = packCell(call.ch, call.n1, call.attrs.fg,
                                     call.attrs.bg)]
    /\ UNCHANGED <<rows, cols, prev, curr, dirty, output, screen, termSgr,
                   streak, notDiff>>

InitCodec == CodecInit /\ DecIdle /\ ReaderIdle /\ CtlIdle

NextCodec == PackCell

SpecCodec == InitCodec /\ [][NextCodec]_vars

InitEngine == DiffInit /\ DecIdle /\ ReaderIdle /\ CtlIdle

NextEngine == EngineSetCell \/ EngineSetCellWithAttrs \/ EngineResize

SpecEngine == InitEngine /\ [][NextEngine]_vars

\* initializeInput on every config of at most MaxFeatures features, then
\* resetTerminal by the application.
MaxFeatures == 2

MinLevels == {"undefined", "none", "full"}

FeatureConfigs ==
    [feature : InputFeatures, enabled : BOOLEAN, required : BOOLEAN,
     minLevel : MinLevels]

FeatureLists ==
    {<<>>} \cup {<<a>> : a \in FeatureConfigs}
           \cup {p \in FeatureConfigs \X FeatureConfigs :
                     p[1].feature # p[2].feature}

Configured(features) == {features[i].feature : i \in 1 .. Len(features)}

DetectedTypes == {"kitty", "unknown"}

CapabilitiesFor(features) ==
    {[terminalType |-> t, features |-> l] :
        t \in DetectedTypes,
        l \in {m \in [InputFeatures -> SupportLevel] :
                  \A f \in InputFeatures \ Configured(features) :
                      m[f] = "none"}}

OverridesFor(features) ==
    {{}} \cup (IF features = <<>> THEN {}
               ELSE {{<<features[1].feature, b>>} : b \in BOOLEAN})

InputInit ==
    /\ termState = [rawMode |-> FALSE, mouseTracking |-> FALSE,
                    mouseProtocol |-> "undefined", kittyKeyboard |-> FALSE,
                    bracketedPaste |-> FALSE, focusEvents |-> FALSE,
                    enabledFeatures |-> {},
                    supportedFeatures |->
                        [f \in InputFeatures |-> "undefined"]]
    /\ isRawMode = FALSE
    /\ listeners = [s \in Signals |-> <<"cleanupHandler">>]
    /\ outBuffer = <<>>
    /\ proc = "running"
    /\ task = NoTask
    /\ atSignal = NoSignal
    /\ opLog = <<>>
    /\ kittyStack = 0
    /\ resetEnded = "none"
    /\ waiting = <<>>
    /\ \E fs \in FeatureLists :
           \E c \in CapabilitiesFor(fs), o \in OverridesFor(fs) :
               init = [NoInit EXCEPT
                          !.config = [features |-> fs, capabilities |-> c,
                                      overrides |-> o],
                          !.phase = "none"]

InitInput == InputInit /\ DiffIdle /\ DecIdle /\ ReaderIdle

NextInput ==
    \/ InitializeInput
    \/ InitializeInputResumes
    \/ ResetTerminal
    \/ SttyExits

SpecInput == InitInput /\ [][NextInput]_vars

\* initializeInput, configureInput, pushKittyKeyboard and resetTerminal on
\* a terminal that has the Kitty keyboard protocol or lacks it.
KittyFeatureLists ==
    {LegacyFeatures(o) : o \in InputOptions}
        \cup {<<[feature |-> "kittyKeyboard", enabled |-> TRUE,
                 required |-> r, minLevel |-> "full"]>> : r \in BOOLEAN}

KittyCapabilities ==
    {[terminalType |-> t,
      features |-> [f \in InputFeatures |->
                       IF f = "kittyKeyboard" THEN l ELSE "full"]] :
        t \in DetectedTypes, l \in {"full", "none"}}

KittyInit ==
    /\ termState = [rawMode |-> FALSE, mouseTracking |-> FALSE,
                    mouseProtocol |-> "undefined", kittyKeyboard |-> FALSE,
                    bracketedPaste |-> FALSE, focusEvents |-> FALSE,
                    enabledFeatures |-> {},
                    supportedFeatures |->
                        [f \in InputFeatures |-> "undefined"]]
    /\ isRawMode = FALSE
    /\ listeners = [s \in Signals |-> <<"cleanupHandler">>]
    /\ outBuffer = <<>>
    /\ proc = "running"
    /\ task = NoTask
    /\ atSignal = NoSignal
    /\ opLog = <<>>
    /\ kittyStack = 0
    /\ resetEnded = "none"
    /\ waiting = <<>>
    /\ \E fs \in KittyFeatureLists, c \in KittyCapabilities :
           init = [NoInit EXCEPT
                      !.config = [features |-> fs, capabilities |-> c,
                                  overrides |-> {}],
                      !.phase = "none"]

InitKitty == KittyInit /\ DiffIdle /\ DecIdle /\ ReaderIdle

NextKitty ==
    \/ InitializeInput
    \/ ConfigureInput
    \/ InitializeInputResumes
    \/ PushKittyKeyboard
    \/ ResetTerminal
    \/ SttyExits

SpecKitty == InitKitty /\ [][NextKitty]_vars

\* The features, the handlers and the resets, with signals that arrive
\* while a call awaits its stty child.
InitCleanup == CtlIdle /\ DiffIdle /\ DecIdle /\ ReaderIdle

NextCleanup ==
    \/ EnableRawMode
    \/ EnableMouse
    \/ PushKittyKeyboard
    \/ EnableBracketedPaste
    \/ EnableFocusEvents
    \/ InstallCleanupHandlers
    \/ Close
    \/ ResetTerminal
    \/ SttyExits
    \/ Signal
    \/ SignalWhileAwaiting
    \/ WaitingSttyExits

SpecCleanup == InitCleanup /\ [][NextCleanup]_vars

\* The event stream, its host and the terminal's bytes up to their end.
InitStream == ReaderStart /\ StreamInit /\ DecIdle /\ DiffIdle /\ CtlIdle

NextStream ==
    \/ StreamChunkArrives
    \/ StdinEnds
    \/ StartReading
    \/ ReadAgain
    \/ ReadEventSettles
    \/ PauseOver
    \/ HostNext
    \/ CloseStream

SpecStream == InitStream /\ [][NextStream]_vars

\* The event loop runs every continuation that is ready and every timer:
\* the steps of startReading(), of readEvent() and of the host's iteration
\* are taken when they stay enabled.  Nothing obliges the terminal to send
\* bytes or to end, nor anyone to close the stream.
FairStream ==
    /\ WF_vars(StartReading)
    /\ WF_vars(ReadAgain)
    /\ WF_vars(ReadEventSettles)
    /\ WF_vars(PauseOver)
    /\ WF_vars(HostNext)

SpecStreamLive == SpecStream /\ FairStream

InitDecoder == DecInit /\ DiffIdle /\ ReaderIdle /\ CtlIdle

NextDecoder ==
    \/ Feed
    \/ NextEvent
    \/ ClearEvents

SpecDecoder == InitDecoder /\ [][NextDecoder]_vars

InitNoise == NoiseInit /\ DiffIdle /\ ReaderIdle /\ CtlIdle

NextNoise == FeedBlock

SpecNoise == InitNoise /\ [][NextNoise]_vars

InitSeq == SeqInit /\ DiffIdle /\ ReaderIdle /\ CtlIdle

NextSeq == FeedSequence

SpecSeq == InitSeq /\ [][NextSeq]_vars

\* The reader's module state at load: no decoder yet (getDecoder makes the
\* default one on first use), no read issued.
InitReader == ReaderStart /\ StreamIdle /\ DecIdle /\ DiffIdle /\ CtlIdle

NextReader ==
    \/ ChunkArrives
    \/ ReadEvent
    \/ ReadAgain
    \/ PollEvent
    \/ TryReadEvent
    \/ PollTimeout

SpecReader == InitReader /\ [][NextReader]_vars

InitCtl == CtlInit /\ DiffIdle /\ DecIdle /\ ReaderIdle

NextCtl ==
    \/ EnableRawMode
    \/ EnableMouse
    \/ DisableMouse
    \/ PushKittyKeyboard
    \/ PopKittyKeyboard
    \/ EnableBracketedPaste
    \/ DisableBracketedPaste
    \/ EnableFocusEvents
    \/ DisableFocusEvents
    \/ HideCursor
    \/ Flush
    \/ InstallCleanupHandlers
    \/ Close
    \/ ResetTerminal
    \/ SttyExits
    \/ Signal

SpecCtl == InitCtl /\ [][NextCtl]_vars

----------------------------------------------------------------------------
(* Claims about the diff renderer.                                         *)

\* C1: when the terminal showed the front buffer at the call, then after it
\* has interpreted what computeDiff() returned every cell of the screen
\* shows the character and the style (attr, fg, bg) of the back buffer.
C1_ScreenShowsBack ==
    streak >= 1 => screen = ShownBuffer(curr)

\* C2: when computeDiff() has returned, the front buffer equals the back
\* buffer at every cell and every row's dirty flag is clear.
C2_FrontEqualsBack ==
    streak >= 1 =>
        /\ \A i \in 0 .. size - 1 : cellEquals(prev[i], curr[i])
        /\ \A r \in 0 .. rows - 1 : dirty[r] = 0

\* A frame that had something to send: rows were dirty and cells differed.
C2_Witness ==
    /\ streak = 1
    /\ Len(output) > 0
    /\ \E i \in 0 .. size - 1 : curr[i] # emptyCell
    /\ \A i \in 0 .. size - 1 : cellEquals(prev[i], curr[i])

\* C3: a second computeDiff() with no operation in between returns the
\* empty string.
C3_SecondDiffEmpty ==
    streak = 2 => Len(output) = 0

\* The second of two calls in a row, on a grid that holds drawn cells.
C3_Witness ==
    /\ streak = 2
    /\ \E i \in 0 .. size - 1 : curr[i] # emptyCell

\* The tokens of the last frame: characters, SGR sequences, cursor moves.
IsChar(k) == output[k][1] = "ch"

IsSgr(k) == output[k][1] = "sgr"

\* The cell the character token k is written to: the cursor was placed by
\* the last move before it and advances by one with every character.
CellOf(k) ==
    LET m == CHOOSE n \in 1 .. k :
                 /\ output[n][1] = "move"
                 /\ \A j \in n + 1 .. k : output[j][1] # "move"
    IN  (output[m][2] - 1) * cols + (output[m][3] - 1)
            + Cardinality({j \in m + 1 .. k - 1 : IsChar(j)})

\* The background of the back-buffer cell the character token k draws.
BgOf(k) == unpackBgColor(curr[CellOf(k)])

\* The parameters of an SGR sequence hold 49 or 0 as a code of their own,
\* not as an argument of 38 or 48.
RECURSIVE ResetsBackground(_, _)
ResetsBackground(codes, i) ==
    IF i > Len(codes) THEN FALSE
    ELSE IF codes[i] \in {0, 49} THEN TRUE
    ELSE IF codes[i] \in {38, 48} /\ i + 1 <= Len(codes) /\ codes[i + 1] = 5
    THEN ResetsBackground(codes, i + 3)
    ELSE IF codes[i] \in {38, 48} /\ i + 1 <= Len(codes) /\ codes[i + 1] = 2
    THEN ResetsBackground(codes, i + 5)
    ELSE ResetsBackground(codes, i + 1)

\* Character i is drawn on a background and the later character j on the
\* default background, in the frame computeDiff() just returned.
ColouredThenDefault(i, j) ==
    /\ i < j
    /\ IsChar(i) /\ IsChar(j)
    /\ BgOf(i) # NoColor
    /\ BgOf(j) = NoColor

\* C21: whenever a run with the default background is emitted after a run
\* with a non-default background in the same frame, the output between the
\* characters of the two runs holds an SGR sequence that resets the
\* background (code 49, or the full reset 0).
C21_BackgroundReset ==
    streak >= 1 =>
        \A i, j \in 1 .. Len(output) :
            ColouredThenDefault(i, j) =>
                \E k \in i + 1 .. j - 1 :
                    IsSgr(k) /\ ResetsBackground(output[k][2], 1)

\* A frame drew a cell on a background and then a cell on the default one.
C21_Witness ==
    /\ streak >= 1
    /\ \E i, j \in 1 .. Len(output) : ColouredThenDefault(i, j)

\* C22: after every call resize(r, c) with positive arguments, whatever
\* the dimensions were before, both buffers have r x c cells, every cell of
\* both buffers is the empty cell and every row is marked dirty.
C22_ResizeClears ==
    [][call' # call /\ call'.op = "resize" =>
          /\ rows' = call'.n1
          /\ cols' = call'.n2
          /\ prev' = EmptyBuffer(call'.n1 * call'.n2)
          /\ curr' = EmptyBuffer(call'.n1 * call'.n2)
          /\ dirty' = [r \in 0 .. call'.n1 - 1 |-> 1]]_vars

\* C23: computeDiff() emits characters only for cells whose back-buffer
\* value differs from the front buffer; a cell that has not changed since
\* the last frame is not sent again.
C23_OnlyChangedCells ==
    [][streak' >= 1 =>
          \A k \in 1 .. Len(output') :
              IsChar(k)' =>
                  ~cellEquals(prev[CellOf(k)'], curr[CellOf(k)'])]_vars

\* The cell a recorded setCell or setCellWithAttrs call writes.
WrittenCell(c) ==
    IF c.op = "setCell" THEN c.cell
    ELSE packCell(c.ch, attributesToByte(c.attrs), c.attrs.fg, c.attrs.bg)

\* The coordinates of the recorded call lie inside the grid.
InsideGrid(c) == c.n1 >= 0 /\ c.n1 < rows /\ c.n2 >= 0 /\ c.n2 < cols

\* C24: setCell / setCellWithAttrs changes state only when (row, col) lies
\* inside the grid and the new cell differs from the current back-buffer
\* cell, and then it changes exactly that back-buffer cell and marks
\* exactly that row dirty; out-of-range coordinates and writes equal to the
\* current value leave the back buffer, the front buffer and every dirty
\* flag unchanged.
C24_SetCellEffect ==
    [][call' # call /\ call'.op \in {"setCell", "setCellWithAttrs"} =>
          LET c == call'
              idx == c.n1 * cols + c.n2
          IN  /\ rows' = rows /\ cols' = cols
              /\ prev' = prev
              /\ IF InsideGrid(c) /\ curr[idx] # WrittenCell(c)
                 THEN /\ curr' = [curr EXCEPT ![idx] = WrittenCell(c)]
                      /\ dirty' = [dirty EXCEPT ![c.n1] = 1]
                 ELSE /\ curr' = curr
                      /\ dirty' = dirty]_vars

\* A write has changed a cell of a grid of two rows: its row is dirty, the
\* other row is not.
C24_Witness ==
    /\ call.op \in {"setCell", "setCellWithAttrs"}
    /\ InsideGrid(call)
    /\ rows = 2
    /\ curr[call.n1 * cols + call.n2] = WrittenCell(call)
    /\ curr[call.n1 * cols + call.n2] # emptyCell
    /\ dirty[call.n1] = 1
    /\ dirty[1 - call.n1] = 0

\* C25: for every palette index p in 0..255, encoding yields 1 + p and
\* decoding that value yields p again; the default colour encodes to 0 and
\* decodes to default; palette and default colours round-trip exactly
\* through packCell and unpackFgColor / unpackBgColor.
C25_PaletteRoundTrip ==
    LET fg == call.attrs.fg
        bg == call.attrs.bg
        Expected(c) == IF c = NoColor THEN 0 ELSE 1 + c.v
    IN  /\ call.op = "packCell"
        /\ fg.kind \in {"none", "pal"}
        /\ bg.kind \in {"none", "pal"}
        => /\ encodeColor(fg) = Expected(fg)
           /\ encodeColor(bg) = Expected(bg)
           /\ decodeColor(Expected(fg)) = fg
           /\ decodeColor(Expected(bg)) = bg
           /\ unpackFgColor(call.cell) = fg
           /\ unpackBgColor(call.cell) = bg

\* C26: every colour encodes to a value in 0..65535, so the foreground and
\* background fields of a packed cell do not overlap: unpackFgColor of the
\* packed cell is decodeColor(encodeColor(fg)) and unpackBgColor of it is
\* decodeColor(encodeColor(bg)).
C26_ColorFieldsDisjoint ==
    call.op = "packCell" =>
        /\ encodeColor(call.attrs.fg) \in 0 .. 65535
        /\ encodeColor(call.attrs.bg) \in 0 .. 65535
        /\ unpackFgColor(call.cell) = decodeColor(encodeColor(call.attrs.fg))
        /\ unpackBgColor(call.cell) = decodeColor(encodeColor(call.attrs.bg))

----------------------------------------------------------------------------
(* Claims about the input decoder.                                         *)

\* The events of a fresh decoder with the same options fed the bytes in one
\* feed() call.
AllAtOnce(bytes) ==
    feed(NewDecoder(dec.kittyEnabled, dec.quirksEnabled, dec.termType),
         bytes, 1, Len(bytes)).events

\* C4: whatever the chunks the bytes fed so far arrived in, the decoder has
\* produced the sequence of events it produces when they are fed at once.
C4_ChunkingInvariant ==
    produced = AllAtOnce(SubSeq(input, 1, fed))

\* The first part of the input is an escape sequence cut short or made
\* malformed, the second a complete valid sequence, and all of it is fed.
BrokenThenValid ==
    /\ SubSeq(input, 1, split) \in BrokenSeqs
    /\ SubSeq(input, split + 1, Len(input)) \in ValidSeqs
    /\ fed = Len(input)

\* C5: after a malformed or interrupted escape sequence the next complete
\* valid sequence still produces its event: the events it produces on its
\* own are the last events the decoder produced.
C5_RecoversForNextSequence ==
    BrokenThenValid =>
        EndsWith(produced, AllAtOnce(SubSeq(input, split + 1, Len(input))))

\* What the decoder holds while it parses: the raw buffer, the parameter
\* list, the intermediate string, and the OSC and paste accumulators.
MemoryHeld(d) ==
    Len(d.buffer) + Len(d.params) + Len(d.intermediates)
        + Len(d.oscParam) + Len(d.oscBuffer) + Len(d.pasteBuffer)

\* The caps the decoder declares: the raw buffer, the parameter list and
\* the OSC accumulator.
MemoryBound == SEQUENCE_BUFFER_SIZE + MAX_CSI_PARAMS + OSC_LIMIT

\* C9: whatever bytes are fed, what the decoder holds stays within a fixed
\* bound that does not depend on how many bytes were fed.
C9_MemoryBounded ==
    MemoryHeld(dec) <= MemoryBound

\* C10: the CSI parameter list never holds more than 16 entries.
C10_ParamsCapped ==
    Len(dec.params) <= MAX_CSI_PARAMS

----------------------------------------------------------------------------
(* Claims about the stdin reader.                                          *)

IsPrefix(s, t) == Len(s) <= Len(t) /\ s = SubSeq(t, 1, Len(s))

\* C6: a read cancelled by a pollEvent timeout loses no input: the bytes
\* fed to the decoder are, at every moment, the first bytes the byte source
\* delivered, each once and in arrival order, and no chunk is passed over.
C6_NoInputLost ==
    IsPrefix(fedBytes, sentBytes)

----------------------------------------------------------------------------
(* Claims about reset and exit.                                            *)

Range(seq) == {seq[i] : i \in 1 .. Len(seq)}

\* The disable sequences of the features that terminalState st has on.
DisableSequences(st) ==
    (IF st.focusEvents THEN {"DISABLE_FOCUS_EVENTS"} ELSE {})
    \cup (IF st.bracketedPaste THEN {"DISABLE_BRACKETED_PASTE"} ELSE {})
    \cup (IF st.kittyKeyboard THEN {"POP_KITTY_KEYBOARD"} ELSE {})
    \cup (IF st.mouseTracking
          THEN {"DISABLE_MOUSE_ALL", "DISABLE_MOUSE_BUTTONS",
                "DISABLE_MOUSE_TRACKING"}
          ELSE {})
    \cup (IF st.mouseProtocol = "sgr" THEN {"DISABLE_SGR_MOUSE"} ELSE {})

\* C7: with the handlers of installCleanupHandlers registered, when the
\* process has exited on SIGINT or SIGTERM the disable sequence of every
\* feature that was enabled when the signal came has been written to the
\* terminal.
C7_ResetBeforeExit ==
    (proc = "exited" /\ atSignal.sig \in Signals /\ atSignal.installed) =>
        DisableSequences(atSignal.st) \subseteq Range(opLog)

\* C8: however resetTerminal ends, also when restoring cooked mode has
\* failed, it has shown the cursor and flushed the output: the last thing
\* sent to the terminal is the show-cursor sequence and nothing is left in
\* the buffer.
C8_ResetCompletes ==
    resetEnded # "none" =>
        /\ opLog # <<>>
        /\ opLog[Len(opLog)] = "ESC_SHOW_CURSOR"
        /\ outBuffer = <<>>

----------------------------------------------------------------------------
(* Claims about whole sequences (SpecSeq).                                  *)

\* The first sequence fed was the only one.
OneReport == Len(reports) = 1

\* C11: once ESC[200~ has been decoded, the bytes that follow are
\* accumulated and produce no event until they end with ESC[201~; then
\* exactly one paste event is queued, its content is the bytes between the
\* two markers, and the decoder is idle again.
C11_PasteAccumulates ==
    OneReport =>
        \A c \in PasteContents :
            \A p \in PastePrefixes(c) :
                reports[1] = PASTE_START \o p =>
                    IF p = c \o PASTE_END
                    THEN /\ produced = <<TextEvent("paste", c)>>
                         /\ dec.state = "idle"
                         /\ dec.pasteBuffer = <<>>
                    ELSE /\ produced = <<>>
                         /\ dec.state = "paste"
                         /\ dec.pasteBuffer = p

\* A paste of the bytes of the Up key has been decoded as one paste event.
C11_Witness ==
    /\ reports = <<PASTE_START \o <<27, 91, 65>> \o PASTE_END>>
    /\ produced = <<TextEvent("paste", <<27, 91, 65>>)>>

\* C12: with kittyKeyboard enabled, a printable byte followed by the
\* Kitty sequence ESC [ code ; mods : type u of the same key yields exactly
\* one key event: the byte is suppressed, the event carries the key's
\* character, its kind is press, repeat or release for type 1, 2 or 3, and
\* its repeat flag is true only for type 2.
C12_PrintableSuppressed ==
    OneReport /\ dec.kittyEnabled =>
        \A k \in KittyPrintable :
            reports[1] = <<k.byte>> \o KittySeq(k) =>
                /\ Len(produced) = 1
                /\ produced[1].type = "key"
                /\ produced[1].code = CharKey(k.code)
                /\ produced[1].kind = <<"press", "repeat", "release">>[k.type]
                /\ produced[1].repeat = (k.type = 2)

\* 'a' and the report of its release have been decoded with Kitty enabled.
C12_Witness ==
    /\ dec.kittyEnabled
    /\ reports = <<<<97, 27, 91, 57, 55, 59, 49, 58, 51, 117>>>>
    /\ Len(produced) = 1
    /\ produced[1].kind = "release"

\* C13: a decoder configured with kittyKeyboard disabled produces no key
\* event that carries a kind (press, repeat, release) and none whose repeat
\* flag is true, whatever the input bytes.
C13_NoKindWithoutKitty ==
    ~dec.kittyEnabled =>
        \A i \in 1 .. Len(produced) :
            produced[i].type = "key" =>
                produced[i].kind = "" /\ produced[i].repeat = FALSE

\* C14: with kittyKeyboard disabled, the bytes of one multi-byte UTF-8
\* character received in idle produce exactly one key event whose code is
\* the Unicode scalar of the character.
C14_Utf8OneKey ==
    OneReport /\ ~dec.kittyEnabled =>
        \A c \in Utf8Chars :
            reports[1] = c.bytes =>
                /\ Len(produced) = 1
                /\ produced[1].type = "key"
                /\ produced[1].code = CharKey(c.scalar)

\* The SGR report that was fed as the i-th sequence.
ReportOf(i) == CHOOSE r \in SgrReports : SgrSeq(r) = reports[i]

IsMotion(r) == BitSet(r.v, 32)

IsWheel(r) == BitSet(r.v, 64)

\* Among the first i events a press has been decoded with no release since.
Pressed(i) ==
    \E j \in 1 .. i :
        /\ produced[j].kind = "down"
        /\ \A k \in j + 1 .. i : produced[k].kind # "up"

\* C15: for SGR mouse reports, a motion report is decoded as drag exactly
\* when a button press has been decoded with no release since, and as move
\* otherwise; a report with final M that is neither motion nor wheel is
\* down and latches its button; a report with final m is up and clears the
\* latch.
C15_DragNeedsPress ==
    reports # <<>> /\ AllIn(reports, SgrInputs) =>
        /\ Len(produced) = Len(reports)
        /\ \A i \in 1 .. Len(reports) :
               LET r == ReportOf(i)
                   e == produced[i]
                   isLast == i = Len(reports)
               IN  /\ e.type = "mouse"
                   /\ r.final = 109 /\ ~IsWheel(r) =>
                          /\ e.kind = "up"
                          /\ isLast => dec.lastMouseButton = "null"
                   /\ r.final = 77 /\ IsMotion(r) /\ ~IsWheel(r) =>
                          e.kind = IF Pressed(i - 1) THEN "drag" ELSE "move"
                   /\ r.final = 77 /\ ~IsMotion(r) /\ ~IsWheel(r) =>
                          /\ e.kind = "down"
                          /\ e.button # "null"
                          /\ isLast => dec.lastMouseButton = e.button

\* The wheel directions by the low two bits of the button value.
WheelButton(r) ==
    <<"WheelUp", "WheelDown", "WheelLeft", "WheelRight">>[(r.v % 4) + 1]

\* C16: an SGR mouse report whose button value has bit 6 set is decoded as
\* a scroll event whose wheel direction is given by the low two bits of the
\* value, whichever of the shift, alt and ctrl bits are set in it.
C16_WheelWithModifiers ==
    OneReport /\ reports[1] \in SgrInputs =>
        LET r == ReportOf(1)
        IN  IsWheel(r) =>
                /\ Len(produced) = 1
                /\ produced[1].type = "mouse"
                /\ produced[1].kind = "scroll"
                /\ produced[1].button = WheelButton(r)

\* C17: ESC [ M with no '<' intermediate, followed by three bytes, produces
\* exactly one mouse event whose x and y are the second and third byte
\* minus 32, and the three bytes produce no key event of their own.
C17_X10Mouse ==
    OneReport /\ reports[1] \in X10Inputs =>
        /\ Len(produced) = 1
        /\ produced[1].type = "mouse"
        /\ produced[1].x = reports[1][5] - 32
        /\ produced[1].y = reports[1][6] - 32

\* C18: feeding ESC [ I produces one focus event (gained) and feeding
\* ESC [ O produces one focus event (lost); neither produces a key event.
C18_FocusEvents ==
    OneReport /\ reports[1] \in {FocusIn, FocusOut} =>
        /\ Len(produced) = 1
        /\ produced[1].type = "focus"
        /\ \A i \in 1 .. Len(produced) : produced[i].type # "key"

\* The modifier mask of the Kitty report fed as the i-th sequence; a
\* report without the field has mask 1 (no modifier).
MaskOf(i) ==
    IF reports[i] = <<27, 91, 57, 55, 117>> THEN 1
    ELSE IF reports[i] = <<27, 91, 57, 55, 59, 50, 117>> THEN 2
    ELSE (CHOOSE k \in KittyKeys : KittySeq(k) = reports[i]).mods

\* The mask asserts the modifier.
Asserts(mask, mod) ==
    BitSet(mask - 1, CASE mod = "shift" -> 1 [] mod = "alt" -> 2
                       [] mod = "ctrl" -> 4 [] mod = "meta" -> 8)

\* The key events of the modifier keys in produced.
ModifierKey(mod) ==
    Named(CASE mod = "shift" -> "Shift" [] mod = "alt" -> "Alt"
            [] mod = "ctrl" -> "Control" [] mod = "meta" -> "Meta")

PressOrRelease(e, mod) ==
    e.type = "key" /\ e.code = ModifierKey(mod)
        /\ e.kind \in {"press", "release"}

\* The latest press or release of the modifier key among the first i
\* events was a press.
HeldAt(i, mod) ==
    \E j \in 1 .. i :
        /\ PressOrRelease(produced[j], mod)
        /\ produced[j].kind = "press"
        /\ \A k \in j + 1 .. i : ~PressOrRelease(produced[k], mod)

\* C19: with quirks enabled, every Kitty key event reports a modifier as
\* set only if the modifier mask of the terminal asserts it and the most
\* recently decoded press or release of that modifier key was a press; a
\* modifier key with no such event yet counts as released.
C19_ModifierShadow ==
    /\ dec.quirksEnabled
    /\ reports # <<>>
    /\ AllIn(reports, KittyInputs)
    /\ Len(produced) = Len(reports)
    => \A i \in 1 .. Len(produced) :
           \A mod \in {"shift", "alt", "ctrl", "meta"} :
               produced[i].modifiers[mod] =>
                   Asserts(MaskOf(i), mod) /\ HeldAt(i, mod)

\* The decoder d after one feed() call for each of the first n sequences.
RECURSIVE FeedAll(_, _, _)
FeedAll(d, seqs, n) ==
    IF n = 0 THEN d
    ELSE feed(FeedAll(d, seqs, n - 1), seqs[n], 1, Len(seqs[n]))

\* C20: when the detected terminal is Kitty or Ghostty, a decoder with
\* quirks enabled produces, for every input, the same events as a decoder
\* with quirks disabled.
C20_ModernTerminalsUnmodified ==
    dec.quirksEnabled /\ dec.termType \in {"kitty", "ghostty"} =>
        produced =
            FeedAll(NewDecoder(dec.kittyEnabled, FALSE, dec.termType),
                    reports, Len(reports)).events

----------------------------------------------------------------------------
(* Claims about initializeInput and resetTerminal.                         *)

\* The sequences that enabling a feature writes.
EnableSequencesOf(feature) ==
    CASE feature = "mouseTracking" ->
             {"ENABLE_MOUSE_TRACKING", "ENABLE_MOUSE_BUTTONS",
              "ENABLE_MOUSE_ALL", "ENABLE_SGR_MOUSE"}
      [] feature = "kittyKeyboard" -> {"PUSH_KITTY_KEYBOARD"}
      [] feature = "bracketedPaste" -> {"ENABLE_BRACKETED_PASTE"}
      [] feature = "focusEvents" -> {"ENABLE_FOCUS_EVENTS"}
      [] feature = "clipboard" -> {}

\* initializeInput has just ended: nothing was called since.
InitializeEnded ==
    /\ init.phase \in {"returned", "threw"}
    /\ task = NoTask
    /\ resetEnded = "none"

\* The configured entries that are enabled and that the detected terminal
\* does not support, marked required or not.
UnsupportedEntries(required) ==
    {i \in 1 .. Len(init.config.features) :
        /\ init.config.features[i].enabled
        /\ init.config.features[i].required = required
        /\ init.config.capabilities.features[
               init.config.features[i].feature] = "none"}

\* C27: initializeInput fails exactly when some enabled feature marked
\* required is not supported by the detected terminal, and then with a
\* message naming that feature and the terminal type; an enabled feature
\* that is not supported and not marked required has no enable sequence
\* written and is not reported as enabled.
C27_FailsOnRequiredOnly ==
    InitializeEnded =>
        /\ (init.phase = "threw") <=> (UnsupportedEntries(TRUE) # {})
        /\ \A i \in UnsupportedEntries(TRUE) :
               NotSupported(init.config.features[i].feature,
                            init.config.capabilities.terminalType)
                   \in Range(init.errors)
        /\ \A i \in UnsupportedEntries(FALSE) :
               /\ init.config.features[i].feature
                      \notin termState.enabledFeatures
               /\ EnableSequencesOf(init.config.features[i].feature)
                      \cap Range(opLog) = {}

\* The features that are enabled and disabled by writing a sequence.
SwitchedFeatures ==
    {"mouseTracking", "kittyKeyboard", "bracketedPaste", "focusEvents"}

\* The first sequence written when a feature is enabled, when it is
\* disabled, and the flag terminalState keeps for it.
EnableMark(feature) ==
    CASE feature = "mouseTracking" -> "ENABLE_MOUSE_TRACKING"
      [] feature = "kittyKeyboard" -> "PUSH_KITTY_KEYBOARD"
      [] feature = "bracketedPaste" -> "ENABLE_BRACKETED_PASTE"
      [] feature = "focusEvents" -> "ENABLE_FOCUS_EVENTS"

DisableMark(feature) ==
    CASE feature = "mouseTracking" -> "DISABLE_MOUSE_ALL"
      [] feature = "kittyKeyboard" -> "POP_KITTY_KEYBOARD"
      [] feature = "bracketedPaste" -> "DISABLE_BRACKETED_PASTE"
      [] feature = "focusEvents" -> "DISABLE_FOCUS_EVENTS"

IsOn(st, feature) ==
    CASE feature = "mouseTracking" -> st.mouseTracking
      [] feature = "kittyKeyboard" -> st.kittyKeyboard
      [] feature = "bracketedPaste" -> st.bracketedPaste
      [] feature = "focusEvents" -> st.focusEvents

\* x is written before y in log; both are there.
Before(log, x, y) ==
    \E i, j \in 1 .. Len(log) : i < j /\ log[i] = x /\ log[j] = y

\* C28: a resetTerminal called right after initializeInput writes the
\* disable sequence of exactly the features that are enabled, those of a
\* feature enabled earlier after those of a feature enabled later, and a
\* reset that returns has restored cooked mode.
C28_ReverseOrder ==
    [][/\ (InitializeEnded /\ task'.fn = "resetTerminal") =>
              /\ \A f \in SwitchedFeatures :
                     IsOn(termState, f) <=> DisableMark(f) \in Range(opLog')
              /\ \A f, g \in SwitchedFeatures :
                     Before(opLog, EnableMark(f), EnableMark(g)) =>
                         Before(opLog', DisableMark(g), DisableMark(f))
       /\ (resetEnded' = "returned" /\ resetEnded # "returned") =>
              ~termState'.rawMode]_vars

\* The disable sequences in log, in order.
Disables(log) ==
    SelectSeq(log, LAMBDA x : x \in {"DISABLE_FOCUS_EVENTS",
                                     "DISABLE_BRACKETED_PASTE",
                                     "POP_KITTY_KEYBOARD",
                                     "DISABLE_MOUSE_ALL",
                                     "DISABLE_MOUSE_BUTTONS",
                                     "DISABLE_MOUSE_TRACKING",
                                     "DISABLE_SGR_MOUSE"})

\* A resetTerminal has started: it awaits its stty child or has just ended.
ResetBegun ==
    task.fn = "resetTerminal" \/ waiting # <<>> \/ resetEnded # "none"

\* C29: once a resetTerminal has started, no step writes a further disable
\* sequence: not a reset run after it, not one started by a handler while
\* the first awaits the raw-mode restore, not the one the rejection handler
\* starts when the restore fails.  The log of the call under way gains no
\* disable sequence and the log of a new call holds none.
C29_NoFurtherDisable ==
    [][ResetBegun =>
           \/ Disables(opLog') = <<>>
           \/ /\ task # NoTask \/ waiting # <<>>
              /\ Disables(opLog') = Disables(opLog)]_vars

\* A handler's reset started beside a reset that had disabled a feature and
\* still awaits its stty child.
C29_Witness ==
    /\ task.fn = "resetTerminal"
    /\ waiting # <<>>
    /\ Disables(opLog) # <<>>

----------------------------------------------------------------------------
(* Claims about the event stream.                                          *)

\* C30: when the byte source has reported end of input, the host iterating
\* the event stream eventually observes termination: its iteration ends
\* (the generator has no path that raises an error to it).
C30_EndObserved == stdinEnded ~> host = "ended"

----------------------------------------------------------------------------
(* Further claims about the diff renderer.                                 *)

\* The style of the back-buffer cell the character token k draws.
AttrOf(k) == unpackAttr(curr[CellOf(k)])

FgOf(k) == unpackFgColor(curr[CellOf(k)])

\* The character token k belongs to a run with a non-default attribute,
\* foreground or background.
Styled(k) ==
    IsChar(k) /\ (AttrOf(k) # 0 \/ FgOf(k) # NoColor \/ BgOf(k) # NoColor)

\* C31: the frame computeDiff() returned ends with ESC[0m exactly when some
\* run emitted in it had a non-default attribute, foreground or background.
C31_ResetWhenStyled ==
    streak >= 1 =>
        ((Len(output) > 0 /\ output[Len(output)] = ESC_RESET)
            <=> \E k \in 1 .. Len(output) : Styled(k))

\* Character j opens the run emitted next after the run of character i:
\* no character lies between them and an SGR sequence does.
NextRun(i, j) ==
    /\ i < j
    /\ IsChar(i) /\ IsChar(j)
    /\ \A k \in i + 1 .. j - 1 : ~IsChar(k)
    /\ \E k \in i + 1 .. j - 1 : IsSgr(k)

\* The two runs differ in the attribute byte only and share a foreground or
\* a background that is not the default.
AttrOnlyChange(i, j) ==
    /\ NextRun(i, j)
    /\ AttrOf(i) # AttrOf(j)
    /\ FgOf(i) = FgOf(j)
    /\ BgOf(i) = BgOf(j)
    /\ (FgOf(j) # NoColor \/ BgOf(j) # NoColor)

\* C32: when an emitted run differs from the run emitted before it only in
\* its attribute byte and both have the same non-default foreground or
\* background, the terminal draws the cells of the run with that foreground
\* and background.
C32_ColoursKept ==
    streak >= 1 =>
        \A i, j \in 1 .. Len(output) :
            AttrOnlyChange(i, j) =>
                /\ screen[CellOf(j)].fg = FgOf(j)
                /\ screen[CellOf(j)].bg = BgOf(j)

\* The parameters of an SGR sequence hold 39 or 0 as a code of their own,
\* not as an argument of 38 or 48.
RECURSIVE ResetsForeground(_, _)
ResetsForeground(codes, i) ==
    IF i > Len(codes) THEN FALSE
    ELSE IF codes[i] \in {0, 39} THEN TRUE
    ELSE IF codes[i] \in {38, 48} /\ i + 1 <= Len(codes) /\ codes[i + 1] = 5
    THEN ResetsForeground(codes, i + 3)
    ELSE IF codes[i] \in {38, 48} /\ i + 1 <= Len(codes) /\ codes[i + 1] = 2
    THEN ResetsForeground(codes, i + 5)
    ELSE ResetsForeground(codes, i + 1)

\* Character i is drawn in a foreground colour and the later character j
\* in the default foreground, in the frame computeDiff() just returned.
ForegroundThenDefault(i, j) ==
    /\ i < j
    /\ IsChar(i) /\ IsChar(j)
    /\ FgOf(i) # NoColor
    /\ FgOf(j) = NoColor

\* C33: whenever a run with the default foreground is emitted after a run
\* with a non-default foreground in the same frame, the output between the
\* characters of the two runs holds an SGR sequence that resets the
\* foreground (code 39, or the full reset 0).
C33_ForegroundReset ==
    streak >= 1 =>
        \A i, j \in 1 .. Len(output) :
            ForegroundThenDefault(i, j) =>
                \E k \in i + 1 .. j - 1 :
                    IsSgr(k) /\ ResetsForeground(output[k][2], 1)


(* Further claims about the decoder. *)

\* ESC [ 1 ; m X with X one of A, B, C, D, H, F: an arrow, Home or End
\* with a modifier parameter and no event-type parameter.
TwoParamNav(s) ==
    /\ Len(s) = 6
    /\ SubSeq(s, 1, 4) = <<27, 91, 49, 59>>
    /\ s[5] \in 50 .. 57
    /\ s[6] \in {65, 66, 67, 68, 72, 70}

\* The modifiers of the mask m - 1: shift 1, alt 2, ctrl 4, meta 8.
MaskModifiers(m) ==
    [ctrl |-> BitSet(m - 1, 4), alt |-> BitSet(m - 1, 2),
     shift |-> BitSet(m - 1, 1), meta |-> BitSet(m - 1, 8)]

\* C34: an arrow, Home or End sequence with exactly two parameters gives
\* one key event whose modifiers are those of the mask m - 1 and which is
\* neither a repeat nor a release.
C34_TwoParamsArePress ==
    OneReport /\ TwoParamNav(reports[1]) =>
        /\ Len(produced) = 1
        /\ produced[1].type = "key"
        /\ produced[1].modifiers = MaskModifiers(reports[1][5] - 48)
        /\ produced[1].kind \notin {"repeat", "release"}
        /\ produced[1].repeat = FALSE

\* C35: with kittyKeyboard and quirks disabled, a control byte 0x01 .. 0x1A
\* other than Tab and Enter gives one key event whose code is the letter
\* of the byte and whose ctrl modifier is true.
C35_ControlBytesAreCtrl ==
    OneReport /\ ~dec.kittyEnabled /\ ~dec.quirksEnabled =>
        \A b \in (1 .. 26) \ {9, 13} :
            reports[1] = <<b>> =>
                /\ Len(produced) = 1
                /\ produced[1].type = "key"
                /\ produced[1].code = CharKey(96 + b)
                /\ produced[1].modifiers.ctrl

\* The shift, alt and ctrl bits (2, 3, 4) of the button value are clear.
NoModifierBits(r) == ~BitSet(r.v, 4) /\ ~BitSet(r.v, 8) /\ ~BitSet(r.v, 16)

\* C36: an SGR motion report with none of the shift, alt and ctrl bits set
\* gives a mouse event whose four modifiers are all false.
C36_MotionUnmodified ==
    OneReport /\ reports[1] \in SgrInputs =>
        LET r == ReportOf(1)
        IN  IsMotion(r) /\ NoModifierBits(r) =>
                /\ Len(produced) = 1
                /\ produced[1].type = "mouse"
                /\ produced[1].modifiers = NoMods


(* Further claims about initializeInput and resetTerminal. *)

\* initializeInput threw because a required feature is not supported.
FailedOnRequired ==
    /\ InitializeEnded
    /\ init.phase = "threw"
    /\ \E i \in 1 .. Len(init.errors) : init.errors[i] # RawModeFailed

\* C37: when initializeInput fails because a required feature is not
\* supported, no enable sequence of any feature has been written, no
\* feature is recorded as enabled and raw mode, off before the call, is
\* off.
C37_FailureLeavesNothing ==
    FailedOnRequired =>
        /\ \A f \in SwitchedFeatures :
               EnableSequencesOf(f) \cap Range(opLog) = {}
        /\ termState.enabledFeatures = {}
        /\ ~termState.rawMode

\* C38: when resetTerminal has returned, as many Kitty keyboard pops as
\* pushes have been written: the terminal's Kitty stack is as deep as the
\* program found it.
C38_PushesPopped ==
    resetEnded = "returned" => kittyStack = 0


(* A claim about Terminal.clearScreen. *)

\* C39: a render() that follows a clearScreen(), with no cell set since the
\* render before, leaves on the screen the character of every non-empty
\* cell of the back buffer.
C39_RedrawnAfterClear ==
    [][call.op = "clearScreen" /\ streak >= 1 /\ call'.op = "render" =>
          \A i \in 0 .. size - 1 :
              unpackChar(curr'[i]) # 32 =>
                  screen'[i].ch = unpackChar(curr'[i])]_vars


(* A claim about DCS sequences. *)

\* The first part of the input is a complete DCS sequence and all of the
\* input is fed.
DcsThenRest ==
    /\ SubSeq(input, 1, split) \in DcsSeqs
    /\ fed = Len(input)

\* C40: a complete DCS sequence produces no event and the bytes after it
\* produce the events they produce on their own.
C40_DcsIgnored ==
    DcsThenRest => produced = AllAtOnce(SubSeq(input, split + 1, Len(input)))

====
